---- MODULE Spec2Model ----
(***************************************************************************)
(* Model of the trader_alerts observation store (storage.py), the alert    *)
(* rules (rules.py) and the alert service (service.py).                     *)
(*                                                                         *)
(* Numeric values (Observation.value, thresholds, deltas) are written in   *)
(* hundredths of their unit, so 19.99 is 1999 and 500 bp is 50000.         *)
(* Calendar dates are ordinals counted from 2024-01-01 (ordinal 0); the    *)
(* text the store keeps for a date is the triple <<year, month, day>>,     *)
(* which orders like the zero-padded ISO string "YYYY-MM-DD".              *)
(***************************************************************************)
EXTENDS Integers, Sequences, FiniteSets, TLC

VARIABLES
    db,         \* the committed rows of table observations
    clock,      \* datetime.utcnow(), in seconds
    today,      \* date.today(), an ordinal
    op,         \* the last store/service call: its name and arguments
    ret,        \* what that call returned
    lastWrite,  \* history: the last Observation written for each key, and when
    lastBatch,  \* history: the batch of the last upsert_observations call
    repeats,    \* history: 2 once that batch has been written twice in a row, else 1
    ctx,        \* the RuleContext handed to a rule
    alert,      \* the rule's result for ctx
    wpc,        \* per writer thread: its place in upsert_observations
    wrows,      \* per writer thread: the rows of its batch still to execute
    wal,        \* the uncommitted table of the open write transaction
    wlock,      \* the thread holding the database write lock, or none
    env,        \* what the network answers to a provider's requests
    snap,       \* the arguments handed to compute_signals
    last_fetch_at,  \* the dashboard's last successful fetch time per provider
    conf,       \* create_app's arguments: auto_fetch, providers, cooldown
    pass,       \* the last fetch pass: who ran it and what it did
    auto_fetch_enabled,  \* app.state.auto_fetch_enabled
    reqs,       \* the index requests in progress: where each is in _auto_fetch_now
    cached_market_rows,  \* the market overview rows of the last refresh
    cached_market_at,    \* when they were cached, or none
    market_refreshing,   \* a refresh thread is under way
    mpc,        \* the market refresh threads: where each is in _run
    acall       \* the compute_alerts call in progress: what it has read so far

storeVars == <<db, clock, today, op, ret, lastWrite>>
histVars == <<lastBatch, repeats>>
ruleVars == <<ctx, alert>>
concVars == <<wpc, wrows, wal, wlock>>
inputVars == <<env, snap>>
fetchVars == <<last_fetch_at, conf, pass>>
marketVars == <<cached_market_rows, cached_market_at, market_refreshing, mpc>>
appVars == <<auto_fetch_enabled, reqs, marketVars, acall>>
vars == <<db, clock, today, op, ret, lastWrite, lastBatch, repeats,
          ctx, alert, wpc, wrows, wal, wlock, env, snap, last_fetch_at, conf, pass,
          auto_fetch_enabled, reqs, cached_market_rows, cached_market_at,
          market_refreshing, mpc, acall>>

----------------------------------------------------------------------------
(* Bounds of the model *)

\* longest batch handed to one upsert_observations call
MaxBatch == 2

\* the instants utcnow() can show
Instants == {0, 1}

\* 2025-01-31, and the day after
Todays == {396, 397}

\* the look-back windows the callers ask for (service.py: 35 and 370)
DaysArgs == {35, 370}

----------------------------------------------------------------------------
(* constants.py *)

IndicatorId ==
    { "bofa_bull_bear", "us_high_yield_spread", "sp500_pe_ratio",
      "nasdaq100_pe_ratio", "cnn_fear_greed_index", "cnn_put_call_options",
      "sp500_rsi", "nasdaq100_above_20d_ma", "vix" }

ALL_INDICATORS ==
    << "bofa_bull_bear", "cnn_fear_greed_index", "cnn_put_call_options", "vix",
       "sp500_rsi", "sp500_pe_ratio", "nasdaq100_pe_ratio",
       "nasdaq100_above_20d_ma", "us_high_yield_spread" >>

\* an indicator id an older version wrote and the enumeration no longer has
RemovedIndicator == "removed_indicator"

----------------------------------------------------------------------------
(* Optional values: None is the empty sequence, a value v is <<v>> *)

None == <<>>
Some(v) == <<v>>

----------------------------------------------------------------------------
(* datetime.date: isoformat, fromisoformat, and the order of the ISO text *)

IsLeap(y) == (y % 4 = 0 /\ y % 100 # 0) \/ y % 400 = 0

DaysInYear(y) == IF IsLeap(y) THEN 366 ELSE 365

DaysInMonth(y, m) ==
    IF m = 2 THEN (IF IsLeap(y) THEN 29 ELSE 28)
    ELSE IF m \in {4, 6, 9, 11} THEN 30 ELSE 31

RECURSIVE DaysBeforeYear(_)
DaysBeforeYear(y) ==
    IF y <= 2024 THEN 0 ELSE DaysBeforeYear(y - 1) + DaysInYear(y - 1)

RECURSIVE DaysBeforeMonth(_, _)
DaysBeforeMonth(y, m) ==
    IF m <= 1 THEN 0 ELSE DaysBeforeMonth(y, m - 1) + DaysInMonth(y, m - 1)

RECURSIVE YearAndRest(_, _)
YearAndRest(n, y) ==
    IF n < DaysInYear(y) THEN <<y, n>> ELSE YearAndRest(n - DaysInYear(y), y + 1)

RECURSIVE MonthAndRest(_, _, _)
MonthAndRest(y, n, m) ==
    IF n < DaysInMonth(y, m) THEN <<m, n>>
    ELSE MonthAndRest(y, n - DaysInMonth(y, m), m + 1)

\* the text "YYYY-MM-DD" of an ordinal: year, month and day of the month
YearMonthDay(n) ==
    LET yr == YearAndRest(n, 2024)
        mr == MonthAndRest(yr[1], yr[2], 1)
    IN  <<yr[1], mr[1], mr[2] + 1>>

\* the texts of 2024-01-01 .. 2025-12-31, computed once
IsoTexts == [n \in 0..730 |-> YearMonthDay(n)]

\* date.isoformat()
IsoFormat(n) == IsoTexts[n]

\* date.fromisoformat(): the ordinal of the text
FromIsoFormat(t) == DaysBeforeYear(t[1]) + DaysBeforeMonth(t[1], t[2]) + (t[3] - 1)

\* SQLite compares the TEXT column as_of character by character
TextLess(a, b) ==
    \/ a[1] < b[1]
    \/ a[1] = b[1] /\ a[2] < b[2]
    \/ a[1] = b[1] /\ a[2] = b[2] /\ a[3] < b[3]

TextLeq(a, b) == a = b \/ TextLess(a, b)

----------------------------------------------------------------------------
(* models.py: Observation, and the meta mapping *)

\* Observation.meta: None, or a dict given as its set of <<key, value>> items
MetaNone == [none |-> TRUE, items |-> {}]
MetaDict(items) == [none |-> FALSE, items |-> items]

\* `obs.meta or {}`: None and the empty dict both give the empty dict
MetaOrEmpty(m) == IF m.none \/ m.items = {} THEN MetaDict({}) ELSE m

\* json.dumps / json.loads of a dict
JsonDumps(m) == [json |-> m.items]
JsonLoads(text) == MetaDict(text.json)

Observation(ind, asOf, value, unit, source, meta) ==
    [indicator_id |-> ind, as_of |-> asOf, value |-> value,
     unit |-> unit, source |-> source, meta |-> meta]

----------------------------------------------------------------------------
(* The observations the modelled callers write *)

FearMeta == MetaDict({<<"rating", "extreme fear">>})
RawPercentMeta == MetaDict({<<"raw_percent", "2.83">>})

\* 2024-12-27 = 2025-01-31 minus 35 days, 2025-01-31, 2025-02-01
WriteDays == {361, 396, 397}

ObsInputs ==
    { Observation("cnn_fear_greed_index", 361, 1800, "0-100", "CNN:dataviz", FearMeta),
      Observation("cnn_fear_greed_index", 361, 8000, "%", "manual", MetaNone),
      Observation("cnn_fear_greed_index", 397, 1800, "0-100", "CNN:dataviz", FearMeta),
      Observation("cnn_fear_greed_index", 397, 8000, "%", "manual", MetaNone),
      Observation("us_high_yield_spread", 396, 28300, "bp", "FRED_TXT:BAMLH0A0HYM2", RawPercentMeta) }

RECURSIVE SeqsUpTo(_, _)
SeqsUpTo(S, n) ==
    IF n = 0 THEN {<<>>}
    ELSE LET shorter == SeqsUpTo(S, n - 1)
         IN  shorter \cup {Append(q, x) : q \in {p \in shorter : Len(p) = n - 1}, x \in S}

Batches == SeqsUpTo(ObsInputs, MaxBatch)

\* the indicators the modelled callers query: two that are written, one never written
QueryInds == {"cnn_fear_greed_index", "us_high_yield_spread", "vix"}

\* the row an older version left behind (storage.py:285)
RemovedRow ==
    [indicator_id |-> RemovedIndicator, as_of |-> IsoFormat(397), value |-> 700,
     unit |-> "", source |-> "manual", meta_json |-> JsonDumps(MetaDict({})),
     inserted_at |-> 0]

----------------------------------------------------------------------------
(* storage.py: table observations and upsert_observations *)

PrimaryKey(row) == <<row.indicator_id, row.as_of>>

\* the tuple upsert_observations builds for one Observation
ObsToRow(obs, now) ==
    [indicator_id |-> obs.indicator_id,
     as_of |-> IsoFormat(obs.as_of),
     value |-> obs.value,
     unit |-> obs.unit,
     source |-> obs.source,
     meta_json |-> JsonDumps(MetaOrEmpty(obs.meta)),
     inserted_at |-> now]

\* mutant: ON CONFLICT ... DO NOTHING, the first write of a pair is kept
UpsertRowKeepFirst(table, row) ==
    IF \E r \in table : PrimaryKey(r) = PrimaryKey(row) THEN table ELSE table \cup {row}

\* mutant: a plain INSERT into a table without the primary key
UpsertRowAppend(table, row) == table \cup {row}

\* mutant: the conflict target is indicator_id alone
UpsertRowPerIndicator(table, row) ==
    {r \in table : r.indicator_id # row.indicator_id} \cup {row}

\* INSERT ... ON CONFLICT(indicator_id, as_of) DO UPDATE SET ... for one row
UpsertRow(table, row) ==
    IF \E r \in table : PrimaryKey(r) = PrimaryKey(row)
    THEN { IF PrimaryKey(r) = PrimaryKey(row)
           THEN [r EXCEPT !.value = row.value, !.unit = row.unit,
                          !.source = row.source, !.meta_json = row.meta_json,
                          !.inserted_at = row.inserted_at]
           ELSE r : r \in table }
    ELSE table \cup {row}

\* conn.executemany: the statement once per row, in order
RECURSIVE ExecuteMany(_, _)
ExecuteMany(table, rows) ==
    IF rows = <<>> THEN table
    ELSE ExecuteMany(UpsertRow(table, Head(rows)), Tail(rows))

BatchRows(observations, now) ==
    [i \in 1..Len(observations) |-> ObsToRow(observations[i], now)]

\* upsert_observations: the table after the transaction commits, and cur.rowcount
upsert_observations(table, observations, now) ==
    [table |-> ExecuteMany(table, BatchRows(observations, now)),
     rowcount |-> Len(observations)]

----------------------------------------------------------------------------
(* storage.py: the queries *)

\* Observation(...) built from a selected row
RowToObs(row) ==
    Observation(row.indicator_id, FromIsoFormat(row.as_of), row.value,
                row.unit, row.source, JsonLoads(row.meta_json))

RowsOf(table, ind) == {r \in table : r.indicator_id = ind}

\* ORDER BY as_of ASC over a set of rows
RECURSIVE OrderByAsOfAsc(_)
OrderByAsOfAsc(rows) ==
    IF rows = {} THEN <<>>
    ELSE LET first == CHOOSE r \in rows : \A q \in rows : TextLeq(r.as_of, q.as_of)
         IN  <<first>> \o OrderByAsOfAsc(rows \ {first})

\* mutant: ORDER BY as_of ASC LIMIT 1
LatestAscending(table, ind) ==
    LET rows == RowsOf(table, ind)
    IN  IF rows = {} THEN None
        ELSE Some(RowToObs(CHOOSE r \in rows : \A q \in rows : TextLeq(r.as_of, q.as_of)))

\* mutant: ORDER BY inserted_at DESC LIMIT 1, the most recently written row
LatestByInsertedAt(table, ind) ==
    LET rows == RowsOf(table, ind)
    IN  IF rows = {} THEN None
        ELSE Some(RowToObs(CHOOSE r \in rows :
                              \A q \in rows : q.inserted_at <= r.inserted_at))

\* latest_observation: ORDER BY as_of DESC LIMIT 1
latest_observation(table, ind) ==
    LET rows == RowsOf(table, ind)
    IN  IF rows = {} THEN None
        ELSE Some(RowToObs(CHOOSE r \in rows : \A q \in rows : TextLeq(q.as_of, r.as_of)))

\* mutant: as_of > cutoff
RecentAfterCutoff(table, ind, days, day) ==
    LET cutoff == IsoFormat(day - days)
        rows == {r \in RowsOf(table, ind) : TextLess(cutoff, r.as_of)}
        sorted == OrderByAsOfAsc(rows)
    IN  [i \in 1..Len(sorted) |-> RowToObs(sorted[i])]

\* recent_observations: as_of >= cutoff, ORDER BY as_of ASC
recent_observations(table, ind, days, day) ==
    LET cutoff == IsoFormat(day - days)
        rows == {r \in RowsOf(table, ind) : TextLeq(cutoff, r.as_of)}
        sorted == OrderByAsOfAsc(rows)
    IN  [i \in 1..Len(sorted) |-> RowToObs(sorted[i])]

\* get_last_update_time: MAX(inserted_at), None for an empty table
get_last_update_time(table) ==
    IF table = {} THEN None
    ELSE Some(CHOOSE t \in {r.inserted_at : r \in table} :
                 \A r \in table : r.inserted_at <= t)

\* mutant: no row is skipped
ListLatestUnfiltered(table) ==
    LET maxRows == {r \in table :
                      \A q \in table : q.indicator_id = r.indicator_id
                                        => TextLeq(q.as_of, r.as_of)}
    IN  [ind \in {r.indicator_id : r \in maxRows} |->
            RowToObs(CHOOSE r \in maxRows : r.indicator_id = ind)]

\* list_latest: the rows joined with MAX(as_of) per indicator_id; rows whose
\* indicator_id IndicatorId(...) rejects are skipped
list_latest(table) ==
    LET maxRows == {r \in table :
                      \A q \in table : q.indicator_id = r.indicator_id
                                        => TextLeq(q.as_of, r.as_of)}
        kept == {r \in maxRows : r.indicator_id \in IndicatorId}
    IN  [ind \in {r.indicator_id : r \in kept} |->
            RowToObs(CHOOSE r \in kept : r.indicator_id = ind)]

----------------------------------------------------------------------------
(* rules.py *)

BULL == "BULL"
BEAR == "BEAR"
NEUTRAL == "NEUTRAL"

Alert(ind, level, evidence) ==
    [indicator_id |-> ind, level |-> level, evidence |-> evidence]

RuleContext(latest, h30, h365) ==
    [latest |-> latest, history_30d |-> h30, history_365d |-> h365]

\* (latest.meta or {}).get(key)
MetaGet(m, key) ==
    IF \E it \in m.items : it[1] = key
    THEN Some((CHOOSE it \in m.items : it[1] = key)[2])
    ELSE None

\* _value_on_or_before: the loop over an ascending history, from index i on,
\* keeping the last observation dated on or before target and stopping at the
\* first one dated after it
RECURSIVE ValueOnOrBeforeFrom(_, _, _, _)
ValueOnOrBeforeFrom(history, target, i, best) ==
    IF i > Len(history) THEN best
    ELSE IF history[i].as_of <= target
         THEN ValueOnOrBeforeFrom(history, target, i + 1, Some(history[i]))
         ELSE best

\* _value_on_or_before stopping at the first observation dated on or before target
ValueOnOrBeforeOldest(history, target) ==
    IF history # <<>> /\ history[1].as_of <= target THEN Some(history[1]) ELSE None

value_on_or_before(history, target) == ValueOnOrBeforeFrom(history, target, 1, None)

\* _delta: latest.value minus the value on or before latest.as_of - lookback_days
delta(history, latest, lookback_days) ==
    LET past == value_on_or_before(history, latest.as_of - lookback_days)
    IN  IF past = None THEN None ELSE Some(latest.value - past[1].value)

\* rule_bofa_bull_bear with the bull threshold excluded
RuleBofaStrict(c) ==
    IF c.latest = None THEN None
    ELSE LET latest == c.latest[1]
             v == latest.value
             ev == [value |-> v, unit |-> latest.unit]
         IN  IF v < -2000 THEN Some(Alert("bofa_bull_bear", BULL, ev))
             ELSE IF v >= 2000 THEN Some(Alert("bofa_bull_bear", BEAR, ev))
             ELSE Some(Alert("bofa_bull_bear", NEUTRAL, ev))

rule_bofa_bull_bear(c) ==
    IF c.latest = None THEN None
    ELSE LET latest == c.latest[1]
             v == latest.value
             ev == [value |-> v, unit |-> latest.unit]
         IN  IF v <= -2000 THEN Some(Alert("bofa_bull_bear", BULL, ev))
             ELSE IF v >= 2000 THEN Some(Alert("bofa_bull_bear", BEAR, ev))
             ELSE Some(Alert("bofa_bull_bear", NEUTRAL, ev))

\* rule_hy_spread with the bull branch tried first
RuleHyBullFirst(c) ==
    IF c.latest = None THEN None
    ELSE LET latest == c.latest[1]
             v == latest.value
             d30 == delta(c.history_365d, latest, 30)
             ev == [value |-> v, unit |-> latest.unit, delta_1m |-> d30]
         IN  IF v <= 30000 \/ (d30 # None /\ d30[1] <= -10000)
             THEN Some(Alert("us_high_yield_spread", BULL, ev))
             ELSE IF v >= 50000 \/ (d30 # None /\ d30[1] >= 10000)
             THEN Some(Alert("us_high_yield_spread", BEAR, ev))
             ELSE Some(Alert("us_high_yield_spread", NEUTRAL, ev))

rule_hy_spread(c) ==
    IF c.latest = None THEN None
    ELSE LET latest == c.latest[1]
             v == latest.value
             d30 == delta(c.history_365d, latest, 30)
             ev == [value |-> v, unit |-> latest.unit, delta_1m |-> d30]
         IN  IF v >= 50000 \/ (d30 # None /\ d30[1] >= 10000)
             THEN Some(Alert("us_high_yield_spread", BEAR, ev))
             ELSE IF v <= 30000 \/ (d30 # None /\ d30[1] <= -10000)
             THEN Some(Alert("us_high_yield_spread", BULL, ev))
             ELSE Some(Alert("us_high_yield_spread", NEUTRAL, ev))

rule_sp500_pe_ratio(c) ==
    IF c.latest = None THEN None
    ELSE LET latest == c.latest[1]
             v == latest.value
             ev == [value |-> v, unit |-> latest.unit]
         IN  IF v >= 2500 THEN Some(Alert("sp500_pe_ratio", BEAR, ev))
             ELSE IF v <= 1500 THEN Some(Alert("sp500_pe_ratio", BULL, ev))
             ELSE Some(Alert("sp500_pe_ratio", NEUTRAL, ev))

rule_cnn_fear_greed(c) ==
    IF c.latest = None THEN None
    ELSE LET latest == c.latest[1]
             v == latest.value
             ev == [value |-> v, unit |-> latest.unit,
                    rating |-> MetaGet(MetaOrEmpty(latest.meta), "rating")]
         IN  IF v <= 2500 THEN Some(Alert("cnn_fear_greed_index", BULL, ev))
             ELSE IF v >= 7500 THEN Some(Alert("cnn_fear_greed_index", BEAR, ev))
             ELSE Some(Alert("cnn_fear_greed_index", NEUTRAL, ev))

\* the indicators RULES has an entry for
RuleIds ==
    {"bofa_bull_bear", "us_high_yield_spread", "sp500_pe_ratio", "cnn_fear_greed_index"}

\* RULES[ind](c), for ind in RuleIds
ApplyRule(ind, c) ==
    CASE ind = "bofa_bull_bear" -> rule_bofa_bull_bear(c)
      [] ind = "us_high_yield_spread" -> rule_hy_spread(c)
      [] ind = "sp500_pe_ratio" -> rule_sp500_pe_ratio(c)
      [] ind = "cnn_fear_greed_index" -> rule_cnn_fear_greed(c)

----------------------------------------------------------------------------
(* service.py *)

\* one pass of compute_alerts' loop: the alert of one target, or nothing
AlertOf(table, ind, day) ==
    LET latest == latest_observation(table, ind)
        h30 == recent_observations(table, ind, 35, day)
        h365 == recent_observations(table, ind, 370, day)
    IN  IF latest = None \/ ind \notin RuleIds THEN None
        ELSE ApplyRule(ind, RuleContext(latest, h30, h365))

RECURSIVE AlertsFrom(_, _, _, _)
AlertsFrom(table, targets, i, day) ==
    IF i > Len(targets) THEN <<>>
    ELSE AlertOf(table, targets[i], day) \o AlertsFrom(table, targets, i + 1, day)

\* compute_alerts(db_path, indicators): indicators None or empty means all
compute_alerts(table, indicators, day) ==
    LET targets == IF indicators = None THEN ALL_INDICATORS ELSE indicators
    IN  AlertsFrom(table, targets, 1, day)

----------------------------------------------------------------------------
(* History of the writes, kept beside the store for the properties *)

ObsKey(obs) == <<obs.indicator_id, obs.as_of>>

AllKeys == {ObsKey(o) : o \in ObsInputs} \cup {<<RemovedIndicator, 397>>}

RECURSIVE NoteWrites(_, _, _)
NoteWrites(lw, observations, now) ==
    IF observations = <<>> THEN lw
    ELSE NoteWrites([lw EXCEPT ![ObsKey(Head(observations))] =
                                   Some([obs |-> Head(observations), at |-> now])],
                    Tail(observations), now)

----------------------------------------------------------------------------
(* The store used by one caller at a time *)

Call(name, args) == [name |-> name, args |-> args]

\* no rule has been called
NoCall == [rule |-> "", out |-> None]

IdleRules == ctx = RuleContext(None, <<>>, <<>>) /\ alert = NoCall

IdleWriters ==
    /\ wpc = <<>>
    /\ wrows = <<>>
    /\ wal = {}
    /\ wlock = None

InitStore ==
    /\ \/ /\ db = {}
          /\ lastWrite = [k \in AllKeys |-> None]
       \/ /\ db = {RemovedRow}
          /\ lastWrite = [k \in AllKeys |->
                            IF k = <<RemovedIndicator, 397>>
                            THEN Some([obs |-> RowToObs(RemovedRow), at |-> 0])
                            ELSE None]
    /\ clock = 0
    /\ today = 396
    /\ op = Call("init_db", <<>>)
    /\ ret = None

NoHistory == lastBatch = None /\ repeats = 0

\* no provider and no signal engine is at work
IdleInputs == env = None /\ snap = None

\* no dashboard is up and no fetch pass has run
NoPass == [kind |-> "none"]

IdleFetch == last_fetch_at = <<>> /\ conf = None /\ pass = NoPass

\* no index request, no market refresh and no compute_alerts call is under way
IdleRequests == reqs = <<>> /\ acall = <<>>

IdleMarket ==
    /\ cached_market_rows = <<>>
    /\ cached_market_at = None
    /\ market_refreshing = FALSE
    /\ mpc = <<>>

\* no dashboard is up
IdleApp == auto_fetch_enabled = FALSE /\ IdleRequests /\ IdleMarket

Init ==
    InitStore /\ NoHistory /\ IdleRules /\ IdleWriters /\ IdleInputs /\ IdleFetch /\ IdleApp

\* the variables the store's own calls leave alone
beside == <<ctx, alert, wpc, wrows, wal, wlock, inputVars, fetchVars, appVars>>

\* a second passes
Tick ==
    /\ clock + 1 \in Instants
    /\ clock' = clock + 1
    /\ UNCHANGED <<db, today, op, ret, lastWrite, histVars, beside>>

\* midnight passes
NextDay ==
    /\ today + 1 \in Todays
    /\ today' = today + 1
    /\ UNCHANGED <<db, clock, op, ret, lastWrite, histVars, beside>>

\* one call of upsert_observations(db_path, batch)
UpsertCall(batch) ==
    LET r == upsert_observations(db, batch, clock)
    IN  /\ db' = r.table
        /\ ret' = r.rowcount
        /\ op' = Call("upsert_observations", <<Len(batch)>>)
        /\ lastWrite' = NoteWrites(lastWrite, batch, clock)
        /\ UNCHANGED <<clock, today, beside>>

Upsert(batch) == UpsertCall(batch) /\ UNCHANGED histVars

Latest(ind) ==
    /\ ret' = latest_observation(db, ind)
    /\ op' = Call("latest_observation", <<ind>>)
    /\ UNCHANGED <<db, clock, today, lastWrite, histVars, beside>>

Recent(ind, days) ==
    /\ ret' = recent_observations(db, ind, days, today)
    /\ op' = Call("recent_observations", <<ind, days, today>>)
    /\ UNCHANGED <<db, clock, today, lastWrite, histVars, beside>>

ListLatest ==
    /\ ret' = list_latest(db)
    /\ op' = Call("list_latest", <<>>)
    /\ UNCHANGED <<db, clock, today, lastWrite, histVars, beside>>

GetLastUpdateTime ==
    /\ ret' = get_last_update_time(db)
    /\ op' = Call("get_last_update_time", <<>>)
    /\ UNCHANGED <<db, clock, today, lastWrite, histVars, beside>>

ComputeAlerts(indicators) ==
    /\ ret' = compute_alerts(db, indicators, today)
    /\ op' = Call("compute_alerts", <<indicators>>)
    /\ UNCHANGED <<db, clock, today, lastWrite, histVars, beside>>

Next ==
    \/ Tick
    \/ NextDay
    \/ \E batch \in Batches : Upsert(batch)
    \/ \E ind \in QueryInds : Latest(ind)
    \/ \E ind \in QueryInds, days \in DaysArgs : Recent(ind, days)
    \/ ListLatest
    \/ GetLastUpdateTime
    \/ \E indicators \in {None, <<"cnn_fear_greed_index">>} : ComputeAlerts(indicators)

Spec == Init /\ [][Next]_vars

----------------------------------------------------------------------------
(* The writes alone, with the batches remembered, over fewer observations *)

HistInputs ==
    { Observation("cnn_fear_greed_index", 361, 1800, "0-100", "CNN:dataviz", FearMeta),
      Observation("cnn_fear_greed_index", 397, 1800, "0-100", "CNN:dataviz", FearMeta),
      Observation("cnn_fear_greed_index", 397, 8000, "%", "manual", MetaNone),
      Observation("us_high_yield_spread", 396, 28300, "bp", "FRED_TXT:BAMLH0A0HYM2", RawPercentMeta) }

HistBatches == SeqsUpTo(HistInputs, MaxBatch)

UpsertNoted(batch) ==
    /\ UpsertCall(batch)
    /\ lastBatch' = Some(batch)
    /\ repeats' = IF lastBatch = Some(batch) THEN 2 ELSE 1

NextHistory ==
    \/ Tick
    \/ \E batch \in HistBatches : UpsertNoted(batch)

SpecHistory == Init /\ [][NextHistory]_vars

----------------------------------------------------------------------------
(* Properties of the store *)

\* the (indicator, date) a stored row is for, the date read back from its text
RowKey(r) == <<r.indicator_id, FromIsoFormat(r.as_of)>>

StoredKeys(table) == {RowKey(r) : r \in table}

\* row r holds what write w wrote: value, unit, source and meta
Carries(r, w) ==
    /\ r.value = w.obs.value
    /\ r.unit = w.obs.unit
    /\ r.source = w.obs.source
    /\ JsonLoads(r.meta_json) = MetaOrEmpty(w.obs.meta)

\* C1: after any sequence of upserts the store holds exactly one row for each
\* (indicator_id, as_of) ever written and no other row, and that row carries the
\* value, unit, source and meta (None read as the empty dict) of the last write
\* for the pair, the later record winning inside one batch.
C1_OneRowPerKeyLastWriteWins ==
    /\ \A k \in AllKeys :
          LET rows == {r \in db : RowKey(r) = k}
          IN  IF lastWrite[k] = None THEN rows = {}
              ELSE /\ Cardinality(rows) = 1
                   /\ \A r \in rows : Carries(r, lastWrite[k][1])
    /\ StoredKeys(db) \subseteq AllKeys

\* a batch of two records for one pair with different values was written at
\* second 1, beside a row of another indicator written at second 0
C1_Witness ==
    /\ lastBatch # None
    /\ Len(lastBatch[1]) = 2
    /\ ObsKey(lastBatch[1][1]) = ObsKey(lastBatch[1][2])
    /\ lastBatch[1][1].value # lastBatch[1][2].value
    /\ clock = 1
    /\ \E r \in db : r.indicator_id = "us_high_yield_spread" /\ r.inserted_at = 0
    /\ \E r \in db : RowKey(r) = ObsKey(lastBatch[1][1]) /\ r.inserted_at = 1

\* what a caller compares of an Observation: its key, value, unit and source
ObsView(o) == <<o.indicator_id, o.as_of, o.value, o.unit, o.source>>

LatestView(table, ind) ==
    LET l == latest_observation(table, ind)
    IN  IF l = None THEN None ELSE Some(ObsView(l[1]))

RecentView(table, ind, days, day) ==
    LET h == recent_observations(table, ind, days, day)
    IN  [i \in 1..Len(h) |-> ObsView(h[i])]

SameAnswers(t1, t2, day) ==
    /\ Cardinality(t1) = Cardinality(t2)
    /\ \A ind \in QueryInds :
          /\ LatestView(t1, ind) = LatestView(t2, ind)
          /\ \A days \in DaysArgs :
                RecentView(t1, ind, days, day) = RecentView(t2, ind, days, day)

\* record i is the last one of the batch for its (indicator_id, as_of)
LastOfKey(batch, i) ==
    \A j \in (i + 1)..Len(batch) : ObsKey(batch[j]) # ObsKey(batch[i])

\* after writing batch, recent() shows each written pair once, with the written
\* value, unit and source, and latest() shows it when no row of the indicator
\* is dated later
ShowsWritten(table, batch, day) ==
    \A i \in 1..Len(batch) :
        LastOfKey(batch, i) =>
            LET o == batch[i]
                h == RecentView(table, o.indicator_id, 370, day)
                at == {n \in 1..Len(h) : h[n][2] = o.as_of}
            IN  /\ Cardinality(at) = 1
                /\ \A n \in at : h[n] = ObsView(o)
                /\ (\A r \in RowsOf(table, o.indicator_id) : RowKey(r)[2] <= o.as_of)
                      => LatestView(table, o.indicator_id) = Some(ObsView(o))

\* C2: an upsert of the batch the previous upsert wrote leaves the number of
\* rows and every latest() and recent() answer unchanged in value, unit and
\* source; and after any upsert, so also one with a different value for a pair
\* already stored, latest() and recent() show the written value only.
C2_UpsertIdempotent ==
    [][ op'.name = "upsert_observations" =>
          /\ (lastBatch' = lastBatch => SameAnswers(db, db', today))
          /\ (lastBatch' # None => ShowsWritten(db', lastBatch'[1], today')) ]_vars

\* the same non-empty batch was written twice running, the second time a
\* second later
C2_Witness ==
    /\ repeats = 2
    /\ Len(lastBatch[1]) >= 1
    /\ op.name = "upsert_observations"
    /\ \A i \in 1..Len(lastBatch[1]) :
          \E r \in db : RowKey(r) = ObsKey(lastBatch[1][i]) /\ r.inserted_at = 1
    /\ \E r \in db : r.inserted_at = 0

\* C3: a step of the store changes or removes no row, except that an upsert may
\* replace the row of a pair it writes; so the set of stored pairs only grows.
C3_UpsertFrame ==
    [][ /\ \A r \in db :
              \/ r \in db'
              \/ /\ op'.name = "upsert_observations"
                 /\ lastWrite'[RowKey(r)] # lastWrite[RowKey(r)]
        /\ StoredKeys(db) \subseteq StoredKeys(db') ]_vars

\* an upsert at second 1 replaced one row and left a row written at second 0,
\* and the older version's row, as they were
C3_Witness ==
    /\ op.name = "upsert_observations"
    /\ op.args[1] >= 1
    /\ clock = 1
    /\ RemovedRow \in db
    /\ \E r \in db : r.indicator_id = "cnn_fear_greed_index" /\ r.inserted_at = 0
    /\ \E r \in db : r.indicator_id = "cnn_fear_greed_index" /\ r.inserted_at = 1
                     /\ lastWrite[RowKey(r)][1].at = 1

\* C4: latest(indicator) is absent exactly when the indicator has no row, and
\* otherwise is a stored row of that indicator than which none is dated later.
C4_LatestIsMaxAsOf ==
    op.name = "latest_observation" =>
        LET ind == op.args[1]
            rows == RowsOf(db, ind)
        IN  /\ (ret = None) <=> (rows = {})
            /\ ret # None =>
                  /\ ret[1].indicator_id = ind
                  /\ \E r \in rows : RowToObs(r) = ret[1]
                  /\ \A r \in rows : RowKey(r)[2] <= ret[1].as_of

\* latest() answered the later-dated row although the earlier-dated one was
\* written after it, with a later-dated row of another indicator in the store
C4_Witness ==
    /\ op = Call("latest_observation", <<"cnn_fear_greed_index">>)
    /\ ret # None
    /\ ret[1].as_of = 397
    /\ \E r \in db : RowKey(r) = <<"cnn_fear_greed_index", 397>> /\ r.inserted_at = 0
    /\ \E r \in db : RowKey(r) = <<"cnn_fear_greed_index", 361>> /\ r.inserted_at = 1
    /\ RemovedRow \in db

StrictlyAscending(h) == \A i \in 1..(Len(h) - 1) : h[i].as_of < h[i + 1].as_of

\* C5 as claimed: recent(indicator, days) is exactly the rows of the indicator
\* dated within [today - days, today], strictly ascending.
C5_WithinWindow ==
    op.name = "recent_observations" =>
        LET ind == op.args[1]
            days == op.args[2]
            day == op.args[3]
        IN  /\ {ret[i] : i \in 1..Len(ret)} =
                  {RowToObs(r) : r \in {q \in RowsOf(db, ind) :
                       day - days <= RowKey(q)[2] /\ RowKey(q)[2] <= day}}
            /\ StrictlyAscending(ret)

\* C5 amended: recent(indicator, days) is exactly the rows of the indicator
\* dated on or after today - days, rows dated after today included, strictly
\* ascending; a row dated before the cutoff is excluded.
C5_FromCutoffOn ==
    op.name = "recent_observations" =>
        LET ind == op.args[1]
            days == op.args[2]
            day == op.args[3]
        IN  /\ {ret[i] : i \in 1..Len(ret)} =
                  {RowToObs(r) : r \in {q \in RowsOf(db, ind) :
                       day - days <= RowKey(q)[2]}}
            /\ StrictlyAscending(ret)
            /\ \A i \in 1..Len(ret) : ret[i].indicator_id = ind

\* recent(35) on 2025-02-01 left out the stored row of 2024-12-27, one day
\* before the cutoff, and returned the row of 2025-02-01
C5_Witness ==
    /\ op = Call("recent_observations", <<"cnn_fear_greed_index", 35, 397>>)
    /\ \E r \in db : RowKey(r) = <<"cnn_fear_greed_index", 361>>
    /\ Len(ret) = 1
    /\ ret[1].as_of = 397

\* C6: list_latest has an entry exactly for the enumerated indicators that have
\* a row, each the Observation latest(indicator) returns, and none for a stored
\* indicator_id outside the enumeration.
C6_ListLatest ==
    op.name = "list_latest" =>
        /\ DOMAIN ret = {ind \in IndicatorId : RowsOf(db, ind) # {}}
        /\ \A ind \in DOMAIN ret : Some(ret[ind]) = latest_observation(db, ind)
        /\ \A ind \in DOMAIN ret :
              \A r \in RowsOf(db, ind) : RowKey(r)[2] <= ret[ind].as_of

\* list_latest answered for two indicators, one with two rows, and skipped the
\* older version's row
C6_Witness ==
    /\ op.name = "list_latest"
    /\ RemovedRow \in db
    /\ DOMAIN ret = {"cnn_fear_greed_index", "us_high_yield_spread"}
    /\ Cardinality(RowsOf(db, "cnn_fear_greed_index")) = 2

\* the documented Fear & Greed level of a value
FearGreedLevel(v) == IF v <= 2500 THEN BULL ELSE IF v >= 7500 THEN BEAR ELSE NEUTRAL

\* C8: compute_alerts gives, for each target with a registered rule, no alert
\* when the indicator has no row and otherwise one alert, made from the value
\* of the row with the latest as_of whenever it was written; for Fear & Greed
\* its level is the documented level of that value (18 gives BULL).
C8_AlertOfMaxAsOf ==
    op.name = "compute_alerts" =>
        LET targets == IF op.args[1] = None THEN IndicatorId
                       ELSE {op.args[1][i] : i \in DOMAIN op.args[1]}
        IN  \A ind \in RuleIds \cap targets :
                LET rows == RowsOf(db, ind)
                    at == {i \in 1..Len(ret) : ret[i].indicator_id = ind}
                IN  IF rows = {} THEN at = {}
                    ELSE /\ Cardinality(at) = 1
                         /\ \A i \in at : \E r \in rows :
                               /\ \A q \in rows : RowKey(q)[2] <= RowKey(r)[2]
                               /\ ret[i].evidence.value = r.value
                               /\ ind = "cnn_fear_greed_index"
                                     => ret[i].level = FearGreedLevel(r.value)

\* Fear & Greed 18 dated 2025-02-01 was written first, 80 dated 2024-12-27
\* after it, and the evaluation of the indicator is BULL
C8_Witness ==
    /\ op = Call("compute_alerts", <<Some("cnn_fear_greed_index")>>)
    /\ \E r \in db : /\ RowKey(r) = <<"cnn_fear_greed_index", 397>>
                     /\ r.value = 1800 /\ r.inserted_at = 0
    /\ \E r \in db : /\ RowKey(r) = <<"cnn_fear_greed_index", 361>>
                     /\ r.value = 8000 /\ r.inserted_at = 1
    /\ Len(ret) = 1
    /\ ret[1].level = BULL

----------------------------------------------------------------------------
(* The rules alone, each applied to a context drawn from bounded inputs *)

\* the most observations older than the latest one that a drawn history holds
MaxPast == 2

\* how many days before the latest observation an older one is dated
PastOffsets == {29, 30, 31, 60}

\* values at, just under and just over every threshold of the level-only rules
LevelValues ==
    {-2001, -2000, -1999, 1499, 1500, 1501, 1999, 2000, 2001,
     2499, 2500, 2501, 7499, 7500, 7501}

\* spreads at, between, beside and beyond 300 bp and 500 bp
SpreadValues == {30000, 30001, 40000, 49999, 50000, 52000}

\* older spreads 100 bp and 99.99 bp away from 400 bp, and further away
PastSpreads == {15000, 30000, 30001, 49999, 50000, 60000}

LatestValuesOf(ind) ==
    IF ind = "us_high_yield_spread" THEN SpreadValues ELSE LevelValues

PastValuesOf(ind) ==
    IF ind = "us_high_yield_spread" THEN PastSpreads ELSE {1800, 8000}

UnitOf(ind) ==
    CASE ind = "us_high_yield_spread" -> "bp"
      [] ind = "sp500_pe_ratio" -> "x"
      [] ind = "cnn_fear_greed_index" -> "0-100"
      [] OTHER -> "%"

\* the latest observation of ind, dated 2025-01-31
LatestsOf(ind) ==
    {Observation(ind, 396, v, UnitOf(ind), "manual", MetaDict({})) :
        v \in LatestValuesOf(ind)}

PastsOf(ind) ==
    {Observation(ind, 396 - k, v, UnitOf(ind), "manual", MetaDict({})) :
        k \in PastOffsets, v \in PastValuesOf(ind)}

\* the older rows of one indicator as recent_observations lists them: one per
\* date, ascending
PastListsOf(ind) ==
    {h \in SeqsUpTo(PastsOf(ind), MaxPast) :
        \A i \in 1..(Len(h) - 1) : h[i].as_of < h[i + 1].as_of}

\* what compute_alerts builds on the day of the latest row: the last 370 days
\* hold the latest row and the older ones, the last 35 days those of them
\* dated within 35 days; a history is empty when the latest row is older
\* than the window
ContextsOf(ind) ==
    {RuleContext(Some(l), <<>>, <<>>) : l \in LatestsOf(ind)}
    \cup {RuleContext(Some(l),
                      SelectSeq(h \o <<l>>, LAMBDA o : o.as_of >= 396 - 35),
                      h \o <<l>>) :
            l \in LatestsOf(ind), h \in PastListsOf(ind)}

RuleContexts ==
    {RuleContext(None, <<>>, <<>>)} \cup UNION {ContextsOf(ind) : ind \in RuleIds}

InitRules ==
    /\ ctx \in RuleContexts
    /\ alert = NoCall
    /\ db = {}
    /\ lastWrite = [k \in AllKeys |-> None]
    /\ clock = 0
    /\ today = 396
    /\ op = Call("init_db", <<>>)
    /\ ret = None
    /\ NoHistory
    /\ IdleWriters
    /\ IdleInputs
    /\ IdleFetch
    /\ IdleApp

\* RULES[ind](ctx), ctx being a context of ind
Evaluate(ind) ==
    /\ IF ctx.latest = None THEN TRUE ELSE ctx.latest[1].indicator_id = ind
    /\ alert' = [rule |-> ind, out |-> ApplyRule(ind, ctx)]
    /\ UNCHANGED <<ctx, storeVars, histVars, concVars, inputVars, appVars, fetchVars>>

NextRules == \E ind \in RuleIds : Evaluate(ind)

SpecRules == InitRules /\ [][NextRules]_vars

----------------------------------------------------------------------------
(* Properties of the rules *)

\* the places of a history dated on or before day
OnOrBefore(history, day) == {i \in DOMAIN history : history[i].as_of <= day}

\* a context's history holds an observation dated 30 days before its latest
\* one, or earlier
HasDelta30(c) == OnOrBefore(c.history_365d, c.latest[1].as_of - 30) # {}

\* the latest value minus the value of the latest-dated such observation
Delta30(c) ==
    LET h == c.history_365d
        S == OnOrBefore(h, c.latest[1].as_of - 30)
        i == CHOOSE i \in S : \A j \in S : h[j].as_of <= h[i].as_of
    IN  c.latest[1].value - h[i].value

SpreadUp(c) == HasDelta30(c) /\ Delta30(c) >= 10000
SpreadDown(c) == HasDelta30(c) /\ Delta30(c) <= -10000

\* C9: the high-yield spread rule gives BEAR when the value is at least 500 bp
\* or the 30-day change is known and at least +100 bp; failing that, BULL when
\* the value is at most 300 bp or the change is known and at most -100 bp;
\* failing that, NEUTRAL.  BEAR therefore wins when a BEAR and a BULL
\* condition both hold.
C9_HySpreadBearFirst ==
    (alert.rule = "us_high_yield_spread" /\ ctx.latest # None) =>
        LET v == ctx.latest[1].value
        IN  /\ alert.out # None
            /\ alert.out[1].level =
                  IF v >= 50000 \/ SpreadUp(ctx) THEN BEAR
                  ELSE IF v <= 30000 \/ SpreadDown(ctx) THEN BULL
                  ELSE NEUTRAL
            /\ (v <= 30000 /\ SpreadUp(ctx)) => alert.out[1].level = BEAR
            /\ (v >= 50000 /\ SpreadDown(ctx)) => alert.out[1].level = BEAR

\* the rule has answered BEAR for a spread of 300 bp that rose 150 bp in 30 days
C9_Witness ==
    /\ alert.rule = "us_high_yield_spread"
    /\ ctx.latest # None
    /\ ctx.latest[1].value = 30000
    /\ HasDelta30(ctx)
    /\ Delta30(ctx) = 15000
    /\ alert.out[1].level = BEAR

\* C20: the 30-day change the high-yield rule reports is the latest value minus
\* the value of the latest-dated observation of the history dated on or before
\* latest.as_of - 30 days, which is neither the latest observation nor one
\* newer than that day; with no such observation the change is unavailable and
\* the thresholds 500 bp and 300 bp alone decide (520 bp gives BEAR).
C20_DeltaFromLastOnOrBefore ==
    (alert.rule = "us_high_yield_spread" /\ ctx.latest # None) =>
        LET l == ctx.latest[1]
            h == ctx.history_365d
            S == OnOrBefore(h, l.as_of - 30)
            d == alert.out[1].evidence.delta_1m
        IN  IF S = {}
            THEN /\ d = None
                 /\ alert.out[1].level =
                       IF l.value >= 50000 THEN BEAR
                       ELSE IF l.value <= 30000 THEN BULL ELSE NEUTRAL
            ELSE \E i \in S :
                    /\ \A j \in S : h[j].as_of <= h[i].as_of
                    /\ \A j \in DOMAIN h : h[j].as_of > h[i].as_of => h[j].as_of > l.as_of - 30
                    /\ h[i] # l
                    /\ d = Some(l.value - h[i].value)

\* the rule has answered BEAR for 520 bp with the latest observation as the
\* whole history, and reported no change
C20_Witness ==
    /\ alert.rule = "us_high_yield_spread"
    /\ ctx.latest # None
    /\ ctx.latest[1].value = 52000
    /\ ctx.history_365d = <<ctx.latest[1]>>
    /\ alert.out[1].evidence.delta_1m = None
    /\ alert.out[1].level = BEAR

LevelOnlyRules == {"bofa_bull_bear", "sp500_pe_ratio", "cnn_fear_greed_index"}

\* C10: whatever the histories, the bull-bear rule gives BULL iff v <= -20 and
\* BEAR iff v >= 20, the P/E rule BEAR iff v >= 25 and BULL iff v <= 15, the
\* Fear & Greed rule BULL iff v <= 25 and BEAR iff v >= 75, and each gives
\* NEUTRAL in every other case.
C10_LevelOnlyRules ==
    (alert.rule \in LevelOnlyRules /\ ctx.latest # None) =>
        LET v == ctx.latest[1].value
            bull == CASE alert.rule = "bofa_bull_bear" -> v <= -2000
                      [] alert.rule = "sp500_pe_ratio" -> v <= 1500
                      [] alert.rule = "cnn_fear_greed_index" -> v <= 2500
            bear == CASE alert.rule = "bofa_bull_bear" -> v >= 2000
                      [] alert.rule = "sp500_pe_ratio" -> v >= 2500
                      [] alert.rule = "cnn_fear_greed_index" -> v >= 7500
        IN  /\ alert.out # None
            /\ alert.out[1].indicator_id = alert.rule
            /\ alert.out[1].level = BULL <=> bull
            /\ alert.out[1].level = BEAR <=> bear
            /\ alert.out[1].level = NEUTRAL <=> ~bull /\ ~bear

\* the bull-bear rule has answered BULL for exactly -20 with a history at hand
C10_Witness ==
    /\ alert.rule = "bofa_bull_bear"
    /\ ctx.latest # None
    /\ ctx.latest[1].value = -2000
    /\ Len(ctx.history_365d) > 1
    /\ alert.out[1].level = BULL

----------------------------------------------------------------------------
(* Two request threads in upsert_observations at once, beside a reader *)

Writers == {1, 2}

\* the batches a thread may hold: at most one observation for a date of an
\* indicator, as one fetch gives
ConcBatches ==
    {b \in HistBatches :
        \A i, j \in 1..Len(b) : ObsKey(b[i]) = ObsKey(b[j]) => i = j}

\* one statement of executemany with the statements committed one by one
ExecuteAutocommit(committed, working, held, row) ==
    [db |-> UpsertRow(committed, row), wal |-> UpsertRow(committed, row)]

\* one statement of executemany inside the connection's transaction: the first
\* one opens the transaction on the committed table, and until the commit only
\* the transaction's own table changes
ExecuteInTransaction(committed, working, held, row) ==
    [db |-> committed,
     wal |-> UpsertRow(IF held THEN working ELSE committed, row)]

InitConc ==
    /\ db = {}
    /\ lastWrite = [k \in AllKeys |-> None]
    /\ clock = 0
    /\ today = 396
    /\ op = Call("init_db", <<>>)
    /\ ret = None
    /\ NoHistory
    /\ IdleRules
    /\ IdleInputs
    /\ IdleFetch
    /\ IdleApp
    /\ wpc = [t \in Writers |-> "call"]
    /\ wrows \in [Writers -> {[batch |-> b, rows |-> <<>>, next |-> 1] : b \in ConcBatches}]
    /\ wal = {}
    /\ wlock = None

\* the thread enters upsert_observations: it reads the time and builds its rows
Start(t) ==
    /\ wpc[t] = "call"
    /\ wpc' = [wpc EXCEPT ![t] = "execute"]
    /\ wrows' = [wrows EXCEPT ![t].rows = BatchRows(wrows[t].batch, clock)]
    /\ UNCHANGED <<storeVars, histVars, ruleVars, wal, wlock, inputVars, appVars,
                   fetchVars>>

\* executemany runs the thread's next statement; the first one needs the
\* database's write lock and waits while the other thread's transaction holds it
ExecuteRow(t) ==
    /\ wpc[t] = "execute"
    /\ wrows[t].next <= Len(wrows[t].rows)
    /\ wlock \in {None, Some(t)}
    /\ LET r == ExecuteInTransaction(db, wal, wlock = Some(t),
                                     wrows[t].rows[wrows[t].next])
       IN  /\ db' = r.db
           /\ wal' = r.wal
    /\ wlock' = Some(t)
    /\ wrows' = [wrows EXCEPT ![t].next = @ + 1]
    /\ UNCHANGED <<clock, today, op, ret, lastWrite, histVars, ruleVars, wpc,
                   inputVars, appVars, fetchVars>>

\* the with block ends: the transaction commits and the lock is free again; a
\* batch without rows has executed no statement and holds no lock
Commit(t) ==
    /\ wpc[t] = "execute"
    /\ wrows[t].next > Len(wrows[t].rows)
    /\ IF wlock = Some(t)
       THEN /\ db' = wal
            /\ wal' = {}
            /\ wlock' = None
       ELSE UNCHANGED <<db, wal, wlock>>
    /\ wpc' = [wpc EXCEPT ![t] = "done"]
    /\ UNCHANGED <<clock, today, op, ret, lastWrite, histVars, ruleVars, wrows,
                   inputVars, appVars, fetchVars>>

NextConc ==
    \/ Tick
    \/ \E t \in Writers : Start(t)
    \/ \E t \in Writers : ExecuteRow(t)
    \/ \E t \in Writers : Commit(t)
    \/ Latest("cnn_fear_greed_index")
    \/ Recent("cnn_fear_greed_index", 35)
    \/ ListLatest

SpecConc == InitConc /\ [][NextConc]_vars

----------------------------------------------------------------------------
(* Properties of overlapping upserts *)

\* the table after thread t's batch alone, and after t's batch then u's
AfterOne(t) == ExecuteMany({}, wrows[t].rows)
AfterBoth(t, u) == ExecuteMany(AfterOne(t), wrows[u].rows)

\* the tables that hold each batch either whole or not at all
WholeBatchTables ==
    {{}, AfterOne(1), AfterOne(2), AfterBoth(1, 2), AfterBoth(2, 1)}

\* C7: with two upsert batches under way at once, the committed table always
\* holds each batch whole or not at all, with one row for a date of an
\* indicator: once both have committed it is what one of the two serial orders
\* gives, and what a latest, recent or list_latest query returned meanwhile is
\* that query's answer on a table holding whole batches only.
C7_OverlappingUpsertsSerial ==
    /\ \A r1, r2 \in db : PrimaryKey(r1) = PrimaryKey(r2) => r1 = r2
    /\ db \in CASE wpc[1] = "done" /\ wpc[2] = "done" ->
                        {AfterBoth(1, 2), AfterBoth(2, 1)}
                [] wpc[1] = "done" /\ wpc[2] # "done" -> {AfterOne(1)}
                [] wpc[1] # "done" /\ wpc[2] = "done" -> {AfterOne(2)}
                [] OTHER -> {{}}
    /\ op.name = "latest_observation" =>
          \E S \in WholeBatchTables : ret = latest_observation(S, op.args[1])
    /\ op.name = "recent_observations" =>
          \E S \in WholeBatchTables :
              ret = recent_observations(S, op.args[1], op.args[2], op.args[3])
    /\ op.name = "list_latest" =>
          \E S \in WholeBatchTables : ret = list_latest(S)

\* both threads have committed a batch of two rows, the two batches writing
\* different values for one date of an indicator and thread 2 committing last;
\* a list_latest between the two commits returned thread 1's batch whole, and
\* the other commit order would have left another table
C7_Witness ==
    /\ wpc[1] = "done" /\ wpc[2] = "done"
    /\ Len(wrows[1].rows) = 2 /\ Len(wrows[2].rows) = 2
    /\ \E i, j \in 1..2 :
          /\ PrimaryKey(wrows[1].rows[i]) = PrimaryKey(wrows[2].rows[j])
          /\ wrows[1].rows[i].value # wrows[2].rows[j].value
    /\ op.name = "list_latest"
    /\ ret = list_latest(AfterOne(1))
    /\ ret # list_latest(db)
    /\ db = AfterBoth(1, 2)
    /\ AfterBoth(1, 2) # AfterBoth(2, 1)

----------------------------------------------------------------------------
(* Fetch passes: cli.py _fetch_all_into_db and the dashboard's              *)
(* _auto_fetch_now, requests handled one at a time                          *)

\* the last second of the modelled time
MaxTime == 2

\* the provider names _fetch_into_db and _auto_fetch_now know
KnownProviders ==
    {"http", "ycharts", "cnn", "vix", "multpl", "nasdaqpe", "fred", "rsi", "ndtw"}

\* the order _fetch_all_into_db goes through
CliProviders == <<"http", "ycharts", "cnn", "multpl", "nasdaqpe", "rsi", "fred">>

\* create_app's default auto_fetch_providers
DefaultProviders ==
    <<"http", "ycharts", "cnn", "vix", "multpl", "nasdaqpe", "fred", "rsi", "ndtw">>

\* the providers that answer a failure with an empty list, not an exception
BestEffort == {"vix", "nasdaqpe", "rsi", "ndtw"}

\* what one call of a provider's fetch does: it raises, or returns observations
Raised == [raised |-> TRUE, obs |-> <<>>]
Got(observations) == [raised |-> FALSE, obs |-> observations]

CnnObs(day) ==
    << Observation("cnn_fear_greed_index", day, 1800, "0-100", "CNN:dataviz", FearMeta),
       Observation("cnn_put_call_options", day, 80, "ratio", "CNN:dataviz", FearMeta) >>

FredObs(day) ==
    << Observation("us_high_yield_spread", day, 28300, "bp", "TradingEconomics",
                   RawPercentMeta) >>

\* the network of one pass: CNN and the spread source answer or fail, every
\* other source is out of reach (its provider raises, or returns nothing if it
\* is a best-effort one)
PassOutcomes(day) ==
    {[p \in KnownProviders |->
        IF p = "cnn" THEN c
        ELSE IF p = "fred" THEN f
        ELSE IF p \in BestEffort THEN Got(<<>>) ELSE Raised] :
            c \in {Raised, Got(<<>>), Got(CnnObs(day))},
            f \in {Raised, Got(FredObs(day))}}

\* _fetch_all_into_db with the exception of a provider ending the pass
RECURSIVE FetchAllFrom(_, _, _, _)
FetchAllAborting(st, i, outcome, now) ==
    IF i > Len(CliProviders) THEN st
    ELSE LET p == CliProviders[i]
             tried == [st EXCEPT !.attempted = Append(@, p)]
         IN  IF outcome[p].raised
             THEN [tried EXCEPT !.err = Append(@, p)]
             ELSE LET w == upsert_observations(tried.db, outcome[p].obs, now)
                  IN  FetchAllFrom([tried EXCEPT !.db = w.table,
                                                 !.total = @ + w.rowcount],
                                   i + 1, outcome, now)

\* _fetch_all_into_db from the i-th name on: _fetch_into_db fetches and upserts
\* what it got, its row count joins the total; an exception is printed and the
\* loop goes on
FetchAllFrom(st, i, outcome, now) ==
    IF i > Len(CliProviders) THEN st
    ELSE LET p == CliProviders[i]
             tried == [st EXCEPT !.attempted = Append(@, p)]
         IN  IF outcome[p].raised
             THEN FetchAllFrom([tried EXCEPT !.err = Append(@, p)],
                               i + 1, outcome, now)
             ELSE LET w == upsert_observations(tried.db, outcome[p].obs, now)
                  IN  FetchAllFrom([tried EXCEPT !.db = w.table,
                                                 !.total = @ + w.rowcount],
                                   i + 1, outcome, now)

\* _should_fetch with the cooldown's last second counted as not yet over
ShouldFetchAfter(last, name, now, cooldown) ==
    IF last[name] = None THEN TRUE ELSE now - last[name][1] > cooldown

\* _should_fetch(name, now)
should_fetch(last, name, now, cooldown) ==
    IF last[name] = None THEN TRUE ELSE now - last[name][1] >= cooldown

RECURSIVE AutoFetchFrom(_, _, _, _, _)
\* the loop of _auto_fetch_now with the fetch time recorded before the fetch,
\* whether it raises or not
AutoFetchStampingFirst(st, i, outcome, now, requested) ==
    IF i > Len(conf.providers) THEN st
    ELSE LET p == conf.providers[i]
         IN  IF ~requested /\ ~should_fetch(st.last, p, now, conf.cooldown)
             THEN AutoFetchFrom(st, i + 1, outcome, now, requested)
             ELSE IF p \notin KnownProviders
             THEN AutoFetchFrom([st EXCEPT !.err = Append(@, p)],
                                i + 1, outcome, now, requested)
             ELSE LET tried == [st EXCEPT !.attempted = Append(@, p),
                                          !.last = [@ EXCEPT ![p] = Some(now)]]
                  IN  IF outcome[p].raised
                      THEN AutoFetchFrom([tried EXCEPT !.err = Append(@, p)],
                                         i + 1, outcome, now, requested)
                      ELSE LET obs == outcome[p].obs
                               w == upsert_observations(tried.db, obs, now)
                           IN  AutoFetchFrom(
                                   [tried EXCEPT
                                       !.db = IF obs # <<>> THEN w.table ELSE @,
                                       !.ok = Append(@, <<p, Len(obs)>>)],
                                   i + 1, outcome, now, requested)

\* the loop of _auto_fetch_now from the i-th configured name on
AutoFetchFrom(st, i, outcome, now, requested) ==
    IF i > Len(conf.providers) THEN st
    ELSE LET p == conf.providers[i]
         IN  IF ~requested /\ ~should_fetch(st.last, p, now, conf.cooldown)
             THEN AutoFetchFrom(st, i + 1, outcome, now, requested)
             ELSE IF p \notin KnownProviders
             THEN AutoFetchFrom([st EXCEPT !.err = Append(@, p)],
                                i + 1, outcome, now, requested)
             ELSE LET tried == [st EXCEPT !.attempted = Append(@, p)]
                  IN  IF outcome[p].raised
                      THEN AutoFetchFrom([tried EXCEPT !.err = Append(@, p)],
                                         i + 1, outcome, now, requested)
                      ELSE LET obs == outcome[p].obs
                               w == upsert_observations(tried.db, obs, now)
                           IN  AutoFetchFrom(
                                   [tried EXCEPT
                                       !.db = IF obs # <<>> THEN w.table ELSE @,
                                       !.ok = Append(@, <<p, Len(obs)>>),
                                       !.last = [@ EXCEPT ![p] = Some(now)]],
                                   i + 1, outcome, now, requested)

\* _auto_fetch_now(requested)
auto_fetch_now(table, last, outcome, now, requested) ==
    LET st == [db |-> table, last |-> last, attempted |-> <<>>,
               ok |-> <<>>, err |-> <<>>]
    IN  IF ~(conf.auto_fetch \/ requested) THEN st
        ELSE AutoFetchFrom(st, 1, outcome, now, requested)

\* the ways the modelled dashboards are set up
Configs ==
    { [auto_fetch |-> TRUE, providers |-> DefaultProviders, cooldown |-> 2],
      [auto_fetch |-> TRUE, providers |-> <<"cnn", "nosuch", "fred">>, cooldown |-> 0],
      [auto_fetch |-> FALSE, providers |-> <<"cnn", "fred">>, cooldown |-> 2] }

ProviderNames == KnownProviders \cup {"nosuch"}

InitFetch ==
    /\ db = {}
    /\ lastWrite = [k \in AllKeys |-> None]
    /\ clock = 0
    /\ today = 396
    /\ op = Call("init_db", <<>>)
    /\ ret = None
    /\ NoHistory
    /\ IdleRules
    /\ IdleWriters
    /\ IdleInputs
    /\ conf \in Configs
    /\ last_fetch_at = [p \in ProviderNames |-> None]
    /\ pass = NoPass
    /\ auto_fetch_enabled = conf.auto_fetch
    /\ IdleRequests
    /\ IdleMarket

\* a second passes
Later ==
    /\ clock < MaxTime
    /\ clock' = clock + 1
    /\ UNCHANGED <<db, today, op, ret, lastWrite, histVars, ruleVars, concVars,
                   inputVars, appVars, fetchVars>>

\* trader fetch all, or evaluate --refresh
CliFetchAll(outcome) ==
    LET st == FetchAllFrom([db |-> db, total |-> 0, attempted |-> <<>>, err |-> <<>>],
                           1, outcome, clock)
    IN  /\ db' = st.db
        /\ pass' = [kind |-> "cli", requested |-> TRUE, now |-> clock,
                    outcome |-> outcome, attempted |-> st.attempted,
                    ok |-> <<>>, err |-> st.err, total |-> st.total]
        /\ UNCHANGED <<clock, today, op, ret, lastWrite, histVars, ruleVars,
                       concVars, inputVars, appVars, last_fetch_at, conf>>

\* one request of the dashboard's index page, refresh=1 or not
DashboardFetch(requested, outcome) ==
    LET st == auto_fetch_now(db, last_fetch_at, outcome, clock, requested)
    IN  /\ db' = st.db
        /\ last_fetch_at' = st.last
        /\ pass' = [kind |-> "dashboard", requested |-> requested, now |-> clock,
                    outcome |-> outcome, attempted |-> st.attempted,
                    ok |-> st.ok, err |-> st.err, total |-> 0]
        /\ UNCHANGED <<clock, today, op, ret, lastWrite, histVars, ruleVars,
                       concVars, inputVars, appVars, conf>>

NextFetch ==
    \/ Later
    \/ \E outcome \in PassOutcomes(today) : CliFetchAll(outcome)
    \/ \E requested \in BOOLEAN, outcome \in PassOutcomes(today) :
          DashboardFetch(requested, outcome)

SpecFetch == InitFetch /\ [][NextFetch]_vars

----------------------------------------------------------------------------
(* Claims about the fetch passes *)

\* the step from the current state is a pass that went through its providers
PassRan ==
    /\ clock' = clock
    /\ pass'.kind \in {"cli", "dashboard"}
    /\ pass'.now = clock
    /\ (pass'.kind = "cli" \/ conf.auto_fetch \/ pass'.requested)

\* provider name p is past its cooldown, or was never fetched, before the pass
CooldownOver(p) ==
    IF last_fetch_at[p] = None THEN TRUE
    ELSE clock - last_fetch_at[p][1] >= conf.cooldown

\* the providers the pass has to go through, in order
DueProviders ==
    LET Due(p) == p \in KnownProviders /\ (pass'.requested \/ CooldownOver(p))
    IN  IF pass'.kind = "cli" THEN CliProviders ELSE SelectSeq(conf.providers, Due)

RECURSIVE SumOver(_)
SumOver(counts) == IF counts = <<>> THEN 0 ELSE Head(counts) + SumOver(Tail(counts))

\* the rows the succeeding providers of names hand to the store at time now
RowsGot(names, outcome, now) ==
    UNION { {ObsToRow(outcome[names[i]].obs[j], now) : j \in DOMAIN outcome[names[i]].obs}
            : i \in {k \in DOMAIN names : ~outcome[names[k]].raised} }

\* C11: in a fetch-all pass (the CLI's and the dashboard's) a provider that
\* raises does not stop the pass: every provider due in the pass is attempted,
\* in order, whatever the earlier ones did; the store afterwards holds the
\* observations of each succeeding provider and is otherwise as before; the
\* written record count is the sum over the succeeding providers only; and
\* each failing provider is in the pass's report (console / error list)
C11_FailureDoesNotStopPass ==
    [][PassRan =>
        LET due == DueProviders
            o == pass'.outcome
            Failing(p) == o[p].raised
            Succeeding(p) == ~o[p].raised
            good == SelectSeq(due, Succeeding)
            got == RowsGot(due, o, clock)
            Known(p) == p \in KnownProviders
            count == SumOver([i \in DOMAIN good |-> Len(o[good[i]].obs)])
        IN  /\ pass'.attempted = due
            /\ db' = {r \in db : \A g \in got : PrimaryKey(g) # PrimaryKey(r)} \cup got
            /\ SelectSeq(pass'.err, Known) = SelectSeq(due, Failing)
            /\ IF pass'.kind = "cli" THEN pass'.total = count
               ELSE /\ [i \in DOMAIN pass'.ok |-> pass'.ok[i][1]] = good
                    /\ SumOver([i \in DOMAIN pass'.ok |-> pass'.ok[i][2]]) = count
    ]_vars

\* a pass in which a provider failed between two succeeding ones, the rows of
\* the one after the failure being in the store
C11_Witness ==
    /\ pass.kind \in {"cli", "dashboard"}
    /\ \E i, j, k \in DOMAIN pass.attempted :
          /\ i < j /\ j < k
          /\ ~pass.outcome[pass.attempted[i]].raised
          /\ pass.outcome[pass.attempted[i]].obs # <<>>
          /\ pass.outcome[pass.attempted[j]].raised
          /\ ~pass.outcome[pass.attempted[k]].raised
          /\ \E n \in DOMAIN pass.outcome[pass.attempted[k]].obs :
                ObsToRow(pass.outcome[pass.attempted[k]].obs[n], pass.now) \in db
    /\ pass.err # <<>>

\* C12: a non-forced pass of the enabled dashboard at time t fetches the
\* configured provider p iff p has no recorded last-fetch time or
\* t - last_fetch_at[p] >= cooldown; a forced pass fetches every configured
\* provider; so a provider whose fetch was recorded less than cooldown seconds
\* ago is not fetched by a non-forced pass
C12_CooldownGatesFetch ==
    [][(PassRan /\ pass'.kind = "dashboard") =>
        \A i \in DOMAIN conf.providers :
            LET p == conf.providers[i]
                fetched == \E j \in DOMAIN pass'.attempted : pass'.attempted[j] = p
            IN  p \in KnownProviders =>
                  /\ pass'.requested => fetched
                  /\ ~pass'.requested =>
                        (fetched <=> (last_fetch_at[p] = None
                                      \/ clock - last_fetch_at[p][1] >= conf.cooldown))
                  /\ (/\ ~pass'.requested
                      /\ last_fetch_at[p] # None
                      /\ clock - last_fetch_at[p][1] < conf.cooldown) => ~fetched
                  /\ last_fetch_at'[p] =
                        IF fetched /\ ~pass'.outcome[p].raised THEN Some(clock)
                        ELSE last_fetch_at[p]
    ]_vars

\* a non-forced pass that left a provider out because its recorded fetch is
\* younger than the cooldown, after a pass that fetched it
C12_Witness ==
    /\ pass.kind = "dashboard" /\ ~pass.requested /\ conf.auto_fetch
    /\ \E i \in DOMAIN conf.providers :
          LET p == conf.providers[i]
          IN  /\ p \in KnownProviders
              /\ last_fetch_at[p] # None
              /\ last_fetch_at[p][1] < pass.now
              /\ pass.now - last_fetch_at[p][1] < conf.cooldown
              /\ \A j \in DOMAIN pass.attempted : pass.attempted[j] # p
    /\ pass.attempted # <<>>

----------------------------------------------------------------------------
(* providers/: what one fetch call does with the answers of the network.   *)
(* env gives, for each site, the answer to a GET; a call's result is        *)
(* whether it raised, the observations it returned and the sites it asked   *)

\* requests: the connection failed or timed out, an HTTP status >= 400, a body
Down == "down"
HttpError == "error"
Ok == "ok"

Raises(requests) == [raised |-> TRUE, obs |-> <<>>, requests |-> requests]
Returns(observations, requests) ==
    [raised |-> FALSE, obs |-> observations, requests |-> requests]

\* indicator_ids names ind
Names(indicator_ids, ind) == \E i \in DOMAIN indicator_ids : indicator_ids[i] = ind

\* the first element of a sequence, None for an empty one
HeadOrNone(s) == IF s = <<>> THEN None ELSE Some(Head(s))

\* TradingEconomicsProvider._fetch_hy_oas_percent on the page's answer: the
\* percent of the description, else the first percent under 30 of the body;
\* dated by the page's last update, else today
te_fetch_hy_oas_percent(resp, day) ==
    LET Under30(x) == x < 3000
        value == IF resp.desc # None THEN resp.desc ELSE HeadOrNone(SelectSeq(resp.body, Under30))
        as_of == IF resp.updated # None THEN resp.updated[1] ELSE day
    IN  IF resp.status # Ok \/ value = None THEN None
        ELSE Some(Observation("us_high_yield_spread", as_of, value[1], "percent",
                              "TradingEconomics", MetaDict({<<"raw_unit", "%">>})))

\* the text parse of _fetch_hy_oas (fred.py:130-147): the last line that splits
\* on blanks into a date and a number
LastParsable(lines) ==
    LET Parsable(l) == l.blank /\ l.date # None /\ l.value # None
        hits == SelectSeq(lines, Parsable)
    IN  IF hits = <<>> THEN None ELSE Some(hits[Len(hits)])

\* mutant: the percent reading stored as it is read
FredObsPercent(as_of, pct, source) ==
    Observation("us_high_yield_spread", as_of, pct, "bp", source,
                MetaDict({<<"raw_percent", pct>>}))

\* the Observation every strategy of _fetch_hy_oas builds: pct * 100.0 bp
FredObsFrom(as_of, pct, source) ==
    Observation("us_high_yield_spread", as_of, pct * 100, "bp", source,
                MetaDict({<<"raw_percent", pct>>}))

\* the public data files of _fetch_hy_oas (fred.py:101-159), after the requests
\* made so far
fetch_hy_oas_files(net, asked) ==
    LET txt == net["fred_txt"]
        text == IF txt.status = Ok /\ ~txt.html THEN txt.lines ELSE <<>>
        askedTxt == Append(asked, "fred_txt")
    IN  IF text # <<>>
        THEN LET hit == LastParsable(text)
             IN  IF hit = None THEN Raises(askedTxt)
                 ELSE Returns(<<FredObsFrom(hit[1].date[1], hit[1].value[1],
                                            "FRED_TXT:BAMLH0A0HYM2")>>, askedTxt)
        ELSE LET csv == net["fred_csv"]
                 askedCsv == Append(askedTxt, "fred_csv")
                 hit == LastParsable(csv.lines)
             IN  IF csv.status # Ok \/ hit = None THEN Raises(askedCsv)
                 ELSE Returns(<<FredObsFrom(hit[1].date[1], hit[1].value[1],
                                            "FRED_TXT:BAMLH0A0HYM2")>>, askedCsv)

\* FredProvider._fetch_hy_oas: TradingEconomics, then the API if a key is set,
\* then the public files
fetch_hy_oas(net, day) ==
    LET te == te_fetch_hy_oas_percent(net["tradingeconomics"], day)
        askedTe == <<"tradingeconomics">>
        api == net["fred_api"]
        askedApi == Append(askedTe, "fred_api")
        Valued(row) == row.value # None
        row == HeadOrNone(SelectSeq(api.rows, Valued))
    IN  IF te # None
        THEN Returns(<<FredObsFrom(te[1].as_of, te[1].value, "TradingEconomics")>>, askedTe)
        ELSE IF ~net["settings"].fred_api_key THEN fetch_hy_oas_files(net, askedTe)
        ELSE IF api.status # Ok THEN Raises(askedApi)
        ELSE IF row # None /\ row[1].date = None THEN Raises(askedApi)
        ELSE IF row # None
        THEN Returns(<<FredObsFrom(row[1].date[1], row[1].value[1],
                                   "FRED_API:BAMLH0A0HYM2")>>, askedApi)
        ELSE fetch_hy_oas_files(net, askedApi)

\* FredProvider.fetch: one _fetch_hy_oas per us_high_yield_spread in the list;
\* the first that raises ends the call
RECURSIVE FredFetchFrom(_, _, _, _, _)
FredFetchFrom(net, indicator_ids, i, day, acc) ==
    IF i > Len(indicator_ids) THEN acc
    ELSE IF indicator_ids[i] # "us_high_yield_spread"
    THEN FredFetchFrom(net, indicator_ids, i + 1, day, acc)
    ELSE LET r == fetch_hy_oas(net, day)
         IN  IF r.raised THEN Raises(acc.requests \o r.requests)
             ELSE FredFetchFrom(net, indicator_ids, i + 1, day,
                                Returns(acc.obs \o r.obs, acc.requests \o r.requests))

FredProvider_fetch(net, indicator_ids, day) ==
    FredFetchFrom(net, indicator_ids, 1, day, Returns(<<>>, <<>>))

\* TradingEconomicsProvider.fetch
TradingEconomicsProvider_fetch(net, indicator_ids, day) ==
    IF indicator_ids # <<>> /\ ~Names(indicator_ids, "us_high_yield_spread")
    THEN Returns(<<>>, <<>>)
    ELSE LET o == te_fetch_hy_oas_percent(net["tradingeconomics"], day)
         IN  IF o = None THEN Raises(<<"tradingeconomics">>)
             ELSE Returns(o, <<"tradingeconomics">>)

\* MultplProvider.fetch: the number after "Current S&P 500 PE Ratio is", as read
MultplProvider_fetch(net, indicator_ids, day) ==
    LET resp == net["multpl"]
        asked == <<"multpl">>
    IN  IF indicator_ids # <<>> /\ ~Names(indicator_ids, "sp500_pe_ratio")
        THEN Returns(<<>>, <<>>)
        ELSE IF resp.status # Ok \/ resp.match = None THEN Raises(asked)
        ELSE Returns(<<Observation("sp500_pe_ratio", day, resp.match[1], "x",
                                   "multpl.com", MetaDict({<<"reported", "">>}))>>, asked)

\* YChartsProvider.fetch
YChartsProvider_fetch(net, indicator_ids, day) ==
    LET resp == net["ycharts"]
        asked == <<"ycharts">>
    IN  IF indicator_ids # <<>> /\ ~Names(indicator_ids, "bofa_bull_bear")
        THEN Returns(<<>>, <<>>)
        ELSE IF resp.status # Ok \/ resp.match = None THEN Raises(asked)
        ELSE Returns(<<Observation("bofa_bull_bear", day, resp.match[1], "%",
                                   "YCharts:AAII", MetaDict({<<"definition", "AAII Bull% - Bear%">>}))>>,
                     asked)

\* Nasdaq100PeProvider._fetch_barrons: the first P/E field of the "Nasdaq 100"
\* record of __NEXT_DATA__ within [5, 200], else the number beside the
\* "Nasdaq 100" anchor of the page if it is within [5, 200]
fetch_barrons(resp, day) ==
    LET Reasonable(v) == 500 <= v /\ v <= 20000
        fromJson == HeadOrNone(SelectSeq(resp.fields, Reasonable))
        fromRow == IF resp.match # None /\ Reasonable(resp.match[1]) THEN resp.match ELSE None
        value == IF fromJson # None THEN fromJson ELSE fromRow
    IN  IF resp.status # Ok \/ value = None THEN None
        ELSE Some(Observation("nasdaq100_pe_ratio", day, value[1], "x", "Barron's",
                              MetaDict({<<"method",
                                  IF fromJson # None THEN "__NEXT_DATA__" ELSE "anchored_html">>})))

\* mutant: the page is fetched whatever the list names
NasdaqFetchUnfiltered(net, indicator_ids, day) ==
    Returns(fetch_barrons(net["barrons"], day), <<"barrons">>)

\* Nasdaq100PeProvider.fetch
Nasdaq100PeProvider_fetch(net, indicator_ids, day) ==
    IF indicator_ids # <<>> /\ ~Names(indicator_ids, "nasdaq100_pe_ratio")
    THEN Returns(<<>>, <<>>)
    ELSE Returns(fetch_barrons(net["barrons"], day), <<"barrons">>)

\* one strategy of Sp500RsiProvider: the first number a pattern captures that
\* lies in [0, 100]
fetch_rsi_site(resp, day, source) ==
    LET InRange(v) == 0 <= v /\ v <= 10000
        value == HeadOrNone(SelectSeq(resp.fields, InRange))
    IN  IF resp.status # Ok \/ value = None THEN None
        ELSE Some(Observation("sp500_rsi", day, value[1], "0-100", source,
                              MetaDict({<<"url", source>>})))

\* mutant: the strategies are given up at the first site that cannot be reached
RsiFromFirstSite(net, i, day, asked) ==
    LET sites == <<"investing", "investtech", "tradingview_rsi">>
        askedNow == Append(asked, sites[i])
    IN  IF net[sites[i]].status = Down THEN Raises(askedNow)
        ELSE Returns(fetch_rsi_site(net[sites[i]], day, sites[i]), askedNow)

\* Sp500RsiProvider._fetch_best_effort from the i-th strategy on
RECURSIVE fetch_rsi_best_effort(_, _, _, _)
fetch_rsi_best_effort(net, i, day, asked) ==
    LET sites == <<"investing", "investtech", "tradingview_rsi">>
    IN  IF i > Len(sites) THEN Returns(<<>>, asked)
        ELSE LET o == fetch_rsi_site(net[sites[i]], day, sites[i])
                 askedNow == Append(asked, sites[i])
             IN  IF o # None THEN Returns(o, askedNow)
                 ELSE fetch_rsi_best_effort(net, i + 1, day, askedNow)

\* Sp500RsiProvider.fetch
Sp500RsiProvider_fetch(net, indicator_ids, day) ==
    IF indicator_ids # <<>> /\ ~Names(indicator_ids, "sp500_rsi")
    THEN Returns(<<>>, <<>>)
    ELSE fetch_rsi_best_effort(net, 1, day, <<>>)

\* NdtwProvider._parse_percentage_from_html: the first number of a context
\* pattern within [0, 100], else the last percent of the page within [20, 100],
\* else its first percent within [0, 100]
parse_percentage_from_html(resp) ==
    LET InRange(v) == 0 <= v /\ v <= 10000
        Likely(v) == 2000 <= v /\ v <= 10000
        context == HeadOrNone(SelectSeq(resp.fields, InRange))
        likely == SelectSeq(resp.percents, Likely)
    IN  IF context # None THEN context
        ELSE IF likely # <<>> THEN Some(likely[Len(likely)])
        ELSE HeadOrNone(SelectSeq(resp.percents, InRange))

\* one strategy of NdtwProvider: Barchart's dailyLastPrice first, the page
\* parse otherwise
fetch_ndtw_site(resp, day, source) ==
    LET value == IF source = "barchart" /\ resp.match # None THEN resp.match
                 ELSE parse_percentage_from_html(resp)
    IN  IF resp.status # Ok \/ value = None THEN None
        ELSE Some(Observation("nasdaq100_above_20d_ma", day, value[1], "percent",
                              source, MetaDict({<<"url", source>>})))

\* NdtwProvider._fetch_best_effort from the i-th strategy on: a strategy's
\* value counts only within [10, 100]
RECURSIVE fetch_ndtw_best_effort(_, _, _, _)
fetch_ndtw_best_effort(net, i, day, asked) ==
    LET sites == <<"barchart", "tradingview_ndtw">>
    IN  IF i > Len(sites) THEN Returns(<<>>, asked)
        ELSE LET o == fetch_ndtw_site(net[sites[i]], day, sites[i])
                 askedNow == Append(asked, sites[i])
             IN  IF o # None /\ o[1].value >= 1000 /\ o[1].value <= 10000
                 THEN Returns(o, askedNow)
                 ELSE fetch_ndtw_best_effort(net, i + 1, day, askedNow)

\* NdtwProvider.fetch
NdtwProvider_fetch(net, indicator_ids, day) ==
    IF indicator_ids # <<>> /\ ~Names(indicator_ids, "nasdaq100_above_20d_ma")
    THEN Returns(<<>>, <<>>)
    ELSE fetch_ndtw_best_effort(net, 1, day, <<>>)

\* VixProvider: a reading counts only within [5, 100]
vix_value(status, reading) ==
    IF status = Ok /\ reading # None /\ 500 <= reading[1] /\ reading[1] <= 10000
    THEN reading ELSE None

\* VixProvider.fetch: Yahoo's regularMarketPrice, else the last y of the
\* market_volatility_vix component of CNN's graphdata
VixProvider_fetch(net, indicator_ids, day) ==
    LET yahoo == vix_value(net["yahoo"].status, net["yahoo"].match)
        cnn == vix_value(net["cnn_graph"].status, net["cnn_graph"].vix)
    IN  IF indicator_ids # <<>> /\ ~Names(indicator_ids, "vix") THEN Returns(<<>>, <<>>)
        ELSE IF yahoo # None
        THEN Returns(<<Observation("vix", day, yahoo[1], "index", "Yahoo Finance",
                                   MetaDict({<<"rating", "">>}))>>, <<"yahoo">>)
        ELSE IF cnn # None
        THEN Returns(<<Observation("vix", day, cnn[1], "index", "CNN:dataviz",
                                   MetaDict({<<"rating", "">>}))>>, <<"yahoo", "cnn_graph">>)
        ELSE Returns(<<>>, <<"yahoo", "cnn_graph">>)

\* CnnFearGreedProvider.fetch: an empty list asks for both components; the
\* score of fear_and_greed, the last y of put_call_options
CnnFearGreedProvider_fetch(net, indicator_ids, day) ==
    LET resp == net["cnn_graph"]
        wantFng == indicator_ids = <<>> \/ Names(indicator_ids, "cnn_fear_greed_index")
        wantPc == indicator_ids = <<>> \/ Names(indicator_ids, "cnn_put_call_options")
        fng == IF wantFng /\ resp.match # None
               THEN <<Observation("cnn_fear_greed_index", day, resp.match[1], "0-100",
                                  "CNN:dataviz", FearMeta)>>
               ELSE <<>>
        pc == IF wantPc /\ resp.fields # <<>>
              THEN <<Observation("cnn_put_call_options", day, resp.fields[Len(resp.fields)],
                                 "ratio", "CNN:dataviz", FearMeta)>>
              ELSE <<>>
    IN  IF ~wantFng /\ ~wantPc THEN Returns(<<>>, <<>>)
        ELSE IF resp.status # Ok THEN Raises(<<"cnn_graph">>)
        ELSE Returns(fng \o pc, <<"cnn_graph">>)

----------------------------------------------------------------------------
(* The networks and the calls the provider claims are checked on *)

Sites ==
    {"tradingeconomics", "fred_api", "fred_txt", "fred_csv", "multpl", "ycharts",
     "barrons", "investing", "investtech", "tradingview_rsi", "barchart",
     "tradingview_ndtw", "yahoo", "cnn_graph"}

\* an answer without a body, and the parts of a body the providers read: the
\* content type, the description's percent, the percents of the page, the
\* page's update day, the API's rows, the lines of a data file, the number a
\* provider's main pattern captures, the numbers its other patterns capture,
\* the graphdata's VIX reading
NoBody(status) ==
    [status |-> status, html |-> FALSE, desc |-> None, body |-> <<>>,
     updated |-> None, rows |-> <<>>, lines |-> <<>>, match |-> None,
     fields |-> <<>>, percents |-> <<>>, vix |-> None]

Unreachable == {NoBody(Down), NoBody(HttpError)}

Line(blank, date, value) == [blank |-> blank, date |-> date, value |-> value]

\* "DATE VALUE"
HeaderLine == Line(TRUE, None, None)

TePages ==
    { NoBody(Down),
      [NoBody(Ok) EXCEPT !.desc = Some(283), !.body = <<10000, 283>>, !.updated = Some(395)],
      [NoBody(Ok) EXCEPT !.body = <<10000, 512>>],
      [NoBody(Ok) EXCEPT !.body = <<10000>>] }

ApiAnswers ==
    { NoBody(Down), NoBody(HttpError), NoBody(Ok),
      [NoBody(Ok) EXCEPT !.rows = << [date |-> Some(395), value |-> None],
                                     [date |-> Some(394), value |-> Some(290)] >>] }

TxtAnswers ==
    { NoBody(Down),
      [NoBody(Ok) EXCEPT !.html = TRUE, !.lines = <<Line(TRUE, None, None)>>],
      NoBody(Ok),
      [NoBody(Ok) EXCEPT !.lines = <<HeaderLine, Line(TRUE, Some(393), Some(301)),
                                     Line(TRUE, Some(394), Some(284)),
                                     Line(TRUE, Some(395), None)>>],
      [NoBody(Ok) EXCEPT !.lines = <<HeaderLine, Line(TRUE, Some(395), None)>>] }

CsvAnswers ==
    { NoBody(HttpError),
      [NoBody(Ok) EXCEPT !.lines = <<Line(FALSE, None, None), Line(FALSE, None, None)>>],
      [NoBody(Ok) EXCEPT !.lines = <<HeaderLine, Line(TRUE, Some(394), Some(284))>>] }

\* a page with the number its main pattern captures
Matching(v) == [NoBody(Ok) EXCEPT !.match = Some(v)]

\* a page with the numbers its patterns capture, in the order they are tried
Capturing(vs) == [NoBody(Ok) EXCEPT !.fields = vs]

MultplPages ==
    Unreachable \cup {NoBody(Ok)} \cup {Matching(v) : v \in {0, 312, 500, 3128, 20000, 100000}}

YChartsPages == {NoBody(Down), NoBody(Ok), Matching(1094)}

BarronsPages ==
    Unreachable \cup
    { NoBody(Ok), Capturing(<<0, 3265>>), Capturing(<<25000>>), Matching(450),
      Matching(3029), [Capturing(<<25000>>) EXCEPT !.match = Some(3029)] }

RsiPages == {NoBody(Down), NoBody(HttpError), Capturing(<<12000, 6986>>), Capturing(<<15000>>)}

BarchartPages ==
    { NoBody(Down), Matching(5940), Matching(500), Matching(15000),
      Capturing(<<20000, 999>>) }

NdtwPages ==
    { NoBody(HttpError), Capturing(<<6138>>),
      [NoBody(Ok) EXCEPT !.percents = <<500, 3000, 5940, 20000>>],
      [NoBody(Ok) EXCEPT !.percents = <<500>>] }

YahooAnswers == {NoBody(Down), NoBody(HttpError), Matching(1650), Matching(400)}

\* CNN's graphdata: the fear_and_greed score in match, the y values of
\* put_call_options in fields, the last y of market_volatility_vix in vix
CnnAnswers ==
    { NoBody(Down), NoBody(HttpError), NoBody(Ok),
      [NoBody(Ok) EXCEPT !.match = Some(1800), !.fields = <<70, 80>>, !.vix = Some(1700)],
      [NoBody(Ok) EXCEPT !.match = Some(1800), !.vix = Some(25000)] }

\* every site out of reach, but those given
Network(key, answers) ==
    [s \in Sites \cup {"settings"} |->
        IF s = "settings" THEN [fred_api_key |-> key]
        ELSE IF s \in DOMAIN answers THEN answers[s] ELSE NoBody(Down)]

Networks ==
    { Network(key, [tradingeconomics |-> te, fred_api |-> api, fred_txt |-> txt,
                    fred_csv |-> csv]) :
        key \in BOOLEAN, te \in TePages, api \in ApiAnswers, txt \in TxtAnswers,
        csv \in CsvAnswers }
    \cup { Network(FALSE, [multpl |-> m, ycharts |-> y]) :
            m \in MultplPages, y \in YChartsPages }
    \cup { Network(FALSE, [barrons |-> b]) : b \in BarronsPages }
    \cup { Network(FALSE, [investing |-> a, investtech |-> b, tradingview_rsi |-> c]) :
            a \in RsiPages, b \in RsiPages, c \in RsiPages }
    \cup { Network(FALSE, [barchart |-> a, tradingview_ndtw |-> b]) :
            a \in BarchartPages, b \in NdtwPages }
    \cup { Network(FALSE, [yahoo |-> y, cnn_graph |-> c]) :
            y \in YahooAnswers, c \in CnnAnswers }

\* the indicator lists the callers of fetch pass
IdLists ==
    { <<>>, <<"us_high_yield_spread">>, <<"vix">>, <<"sp500_pe_ratio">>,
      <<"cnn_put_call_options">>,
      <<"sp500_rsi", "nasdaq100_pe_ratio", "nasdaq100_above_20d_ma", "bofa_bull_bear",
        "cnn_fear_greed_index">> }

\* the indicators each provider supports
Supported ==
    [ cnn |-> {"cnn_fear_greed_index", "cnn_put_call_options"},
      fred |-> {"us_high_yield_spread"},
      tradingeconomics |-> {"us_high_yield_spread"},
      multpl |-> {"sp500_pe_ratio"},
      ycharts |-> {"bofa_bull_bear"},
      nasdaqpe |-> {"nasdaq100_pe_ratio"},
      rsi |-> {"sp500_rsi"},
      ndtw |-> {"nasdaq100_above_20d_ma"},
      vix |-> {"vix"} ]

InitProviders ==
    /\ env \in Networks
    /\ snap = None
    /\ db = {}
    /\ lastWrite = [k \in AllKeys |-> None]
    /\ clock = 0
    /\ today = 396
    /\ op = Call("init", <<>>)
    /\ ret = Returns(<<>>, <<>>)
    /\ NoHistory
    /\ IdleRules
    /\ IdleWriters
    /\ IdleFetch
    /\ IdleApp

\* provider.fetch(indicator_ids) returned result, or raised
ProviderCall(name, indicator_ids, result) ==
    /\ op' = Call("fetch", <<name, indicator_ids>>)
    /\ ret' = result
    /\ UNCHANGED <<db, clock, today, lastWrite, histVars, ruleVars, concVars,
                   inputVars, appVars, fetchVars>>

FetchCnn(ids) == ProviderCall("cnn", ids, CnnFearGreedProvider_fetch(env, ids, today))
FetchFred(ids) == ProviderCall("fred", ids, FredProvider_fetch(env, ids, today))
FetchTradingEconomics(ids) ==
    ProviderCall("tradingeconomics", ids, TradingEconomicsProvider_fetch(env, ids, today))
FetchMultpl(ids) == ProviderCall("multpl", ids, MultplProvider_fetch(env, ids, today))
FetchYCharts(ids) == ProviderCall("ycharts", ids, YChartsProvider_fetch(env, ids, today))
FetchNasdaqPe(ids) == ProviderCall("nasdaqpe", ids, Nasdaq100PeProvider_fetch(env, ids, today))
FetchRsi(ids) == ProviderCall("rsi", ids, Sp500RsiProvider_fetch(env, ids, today))
FetchNdtw(ids) == ProviderCall("ndtw", ids, NdtwProvider_fetch(env, ids, today))
FetchVix(ids) == ProviderCall("vix", ids, VixProvider_fetch(env, ids, today))

NextProviders ==
    \/ \E ids \in IdLists : FetchCnn(ids)
    \/ \E ids \in IdLists : FetchFred(ids)
    \/ \E ids \in IdLists : FetchTradingEconomics(ids)
    \/ \E ids \in IdLists : FetchMultpl(ids)
    \/ \E ids \in IdLists : FetchYCharts(ids)
    \/ \E ids \in IdLists : FetchNasdaqPe(ids)
    \/ \E ids \in IdLists : FetchRsi(ids)
    \/ \E ids \in IdLists : FetchNdtw(ids)
    \/ \E ids \in IdLists : FetchVix(ids)

SpecProviders == InitProviders /\ [][NextProviders]_vars

----------------------------------------------------------------------------
(* Claims about the providers *)

\* the last call was provider name's fetch
Fetched(name) == op.name = "fetch" /\ op.args[1] = name

\* the list of the last fetch names none of the provider's indicators
NoneSupported ==
    \A i \in DOMAIN op.args[2] : op.args[2][i] \notin Supported[op.args[1]]

\* the claim as it is stated: no provider makes a request, and each returns an
\* empty list, when requested_ids names none of its indicators, the empty list
\* included
C13_NoRequestWhenNoneRequested ==
    (op.name = "fetch" /\ NoneSupported) => ret = Returns(<<>>, <<>>)

\* C13: a provider's fetch makes no request and returns an empty list whenever
\* requested_ids is not empty and names none of the provider's indicators; an
\* empty requested_ids makes every provider but FredProvider request its
\* source as for all its indicators, and FredProvider return an empty list
\* without a request
C13_NoRequestWhenOthersRequested ==
    op.name = "fetch" =>
        /\ (op.args[2] # <<>> /\ NoneSupported) => ret = Returns(<<>>, <<>>)
        /\ (op.args[2] = <<>> /\ op.args[1] = "fred") => ret = Returns(<<>>, <<>>)
        /\ (op.args[2] = <<>> /\ op.args[1] # "fred") => ret.requests # <<>>

\* the Nasdaq page is there with a P/E, the list names other indicators, and
\* the call returned nothing without asking
C13_Witness ==
    /\ Fetched("nasdaqpe")
    /\ op.args[2] # <<>> /\ NoneSupported
    /\ env["barrons"].status = Ok /\ env["barrons"].match = Some(3029)
    /\ ret = Returns(<<>>, <<>>)

\* the percent readings an answer of the network holds
Readings(resp) ==
    (IF resp.desc # None THEN {resp.desc[1]} ELSE {})
    \cup {resp.body[i] : i \in DOMAIN resp.body}
    \cup {resp.rows[i].value[1] : i \in {j \in DOMAIN resp.rows : resp.rows[j].value # None}}
    \cup {resp.lines[i].value[1] : i \in {j \in DOMAIN resp.lines : resp.lines[j].value # None}}

\* the answers the strategy named by an Observation's source reads
SourceAnswers(source) ==
    CASE source = "TradingEconomics" -> {env["tradingeconomics"]}
      [] source = "FRED_API:BAMLH0A0HYM2" -> {env["fred_api"]}
      [] source = "FRED_TXT:BAMLH0A0HYM2" -> {env["fred_txt"], env["fred_csv"]}
      [] OTHER -> {}

\* C15: every Observation FredProvider returns has unit "bp", carries in
\* meta.raw_percent a percent reading of the source that produced it, and has
\* value = raw_percent * 100; a TradingEconomics page reading 2.83% gives 283 bp
C15_SpreadStoredInBasisPoints ==
    Fetched("fred") =>
        /\ \A i \in DOMAIN ret.obs :
              LET o == ret.obs[i]
                  raw == MetaGet(o.meta, "raw_percent")
              IN  /\ o.indicator_id = "us_high_yield_spread"
                  /\ o.unit = "bp"
                  /\ raw # None
                  /\ o.value = raw[1] * 100
                  /\ \E a \in SourceAnswers(o.source) : raw[1] \in Readings(a)
        /\ (/\ env["tradingeconomics"].status = Ok
            /\ env["tradingeconomics"].desc = Some(283)
            /\ op.args[2] = <<"us_high_yield_spread">>)
                => /\ ~ret.raised
                   /\ Len(ret.obs) = 1
                   /\ ret.obs[1].value = 28300
                   /\ ret.obs[1].unit = "bp"

\* the page read 2.83% and the call returned 283 bp
C15_Witness ==
    /\ Fetched("fred")
    /\ env["tradingeconomics"].desc = Some(283)
    /\ ret.obs # <<>>
    /\ ret.obs[1].value = 28300
    /\ ret.obs[1].source = "TradingEconomics"
    /\ MetaGet(ret.obs[1].meta, "raw_percent") = Some(283)

\* the plausibility ranges, in hundredths
Plausible(ind, v) ==
    CASE ind = "sp500_rsi" -> 0 <= v /\ v <= 10000
      [] ind \in {"sp500_pe_ratio", "nasdaq100_pe_ratio"} -> 500 <= v /\ v <= 20000
      [] ind = "vix" -> 500 <= v /\ v <= 10000
      [] ind = "nasdaq100_above_20d_ma" -> 1000 <= v /\ v <= 10000
      [] OTHER -> TRUE

\* C16: no scraping provider returns an Observation whose value lies outside
\* its indicator's plausibility range: S&P 500 RSI [0, 100], S&P 500 P/E and
\* Nasdaq-100 P/E [5, 200], VIX [5, 100], breadth [10, 100]
C16_ValuesWithinPlausibleRange ==
    op.name = "fetch" =>
        \A i \in DOMAIN ret.obs : Plausible(ret.obs[i].indicator_id, ret.obs[i].value)

\* the sites FredProvider's chain has to try before it may give up
FredChain ==
    IF env["settings"].fred_api_key
    THEN <<"tradingeconomics", "fred_api", "fred_txt", "fred_csv">>
    ELSE <<"tradingeconomics", "fred_txt", "fred_csv">>

\* C17: FredProvider raises only after every strategy of its chain has been
\* attempted: the TradingEconomics page, the FRED API when a key is set, the
\* public text file and the public CSV
C17_RaisesAfterWholeChain ==
    (Fetched("fred") /\ ret.raised) => ret.requests = FredChain

\* the best-effort call found nothing at any of its sources
NothingToRead ==
    CASE op.args[1] = "nasdaqpe" -> fetch_barrons(env["barrons"], today) = None
      [] op.args[1] = "rsi" ->
            \A s \in {"investing", "investtech", "tradingview_rsi"} :
                env[s].status # Ok \/ \A i \in DOMAIN env[s].fields : env[s].fields[i] > 10000
      [] op.args[1] = "ndtw" ->
            \A s \in {"barchart", "tradingview_ndtw"} : env[s].status # Ok
      [] OTHER -> FALSE

\* the claim as it is stated: MultplProvider, the Nasdaq-100 P/E, the breadth
\* and the RSI provider never raise from fetch
C18_BestEffortNeverRaise ==
    (op.name = "fetch" /\ op.args[1] \in {"multpl", "nasdaqpe", "ndtw", "rsi"})
        => ~ret.raised

\* C18: the Nasdaq-100 P/E, the breadth and the S&P 500 RSI provider never
\* raise from fetch, and return an empty list when no source can be reached or
\* read; MultplProvider, asked for its indicator, raises on a network error,
\* an HTTP error status or a page without the ratio, and only then
C18_ScrapersNeverRaiseButMultpl ==
    /\ (op.name = "fetch" /\ op.args[1] \in {"nasdaqpe", "ndtw", "rsi"}) =>
          /\ ~ret.raised
          /\ (NothingToRead /\ ret.requests # <<>>) => ret.obs = <<>>
    /\ Fetched("multpl") =>
          (ret.raised <=> /\ (op.args[2] = <<>> \/ ~NoneSupported)
                          /\ (env["multpl"].status # Ok \/ env["multpl"].match = None))

\* no RSI site can be reached, and the call returned an empty list after
\* trying the three of them
C18_Witness ==
    /\ Fetched("rsi")
    /\ \A s \in {"investing", "investtech", "tradingview_rsi"} : env[s].status = Down
    /\ ret = Returns(<<>>, <<"investing", "investtech", "tradingview_rsi">>)

----------------------------------------------------------------------------
(* signals.py: compute_signals, on snapshots of latest observations *)

\* the most indicators a drawn snapshot holds
MaxPresent == 2

Signal(ind, top, bottom) == [indicator_id |-> ind, top |-> top, bottom |-> bottom]

\* latest.get(ind)
DictGet(latest, ind) == IF ind \in DOMAIN latest THEN Some(latest[ind]) ELSE None

\* Investor sentiment spread: top at >= 20, bottom at <= -20
bull_bear_signal(o) == Signal(o.indicator_id, o.value >= 2000, o.value <= -2000)

\* Fear & Greed: top at >= 75, bottom at <= 25
fear_greed_signal(o) == Signal(o.indicator_id, o.value >= 7500, o.value <= 2500)

\* mutant: the top side of put/call reaches up to 0.9
PutCallSignalOverlapping(o) == Signal(o.indicator_id, o.value < 90, o.value >= 80)

\* Put/call: bottom at >= 0.80, top under 0.6
put_call_signal(o) == Signal(o.indicator_id, o.value < 60, o.value >= 80)

\* VIX: top under 14, bottom over 25
vix_signal(o) == Signal(o.indicator_id, o.value < 1400, o.value > 2500)

\* RSI: top at >= 70, bottom at <= 30
rsi_signal(o) == Signal(o.indicator_id, o.value >= 7000, o.value <= 3000)

\* S&P 500 P/E: the fixed thresholds, or the percentile if one is given
sp500_pe_signal(o, pe_percentile) ==
    Signal(o.indicator_id,
           o.value >= 3200 \/ (pe_percentile # None /\ pe_percentile[1] >= 90),
           o.value <= 2200 \/ (pe_percentile # None /\ pe_percentile[1] <= 10))

\* Nasdaq-100 P/E: top over 35, bottom under 28
nasdaq_pe_signal(o) == Signal(o.indicator_id, o.value > 3500, o.value < 2800)

\* breadth: top over 80, bottom under 20
breadth_signal(o) == Signal(o.indicator_id, o.value > 8000, o.value < 2000)

\* mutant: the unit is not looked at, the magnitude alone decides
HySignalByMagnitude(o) ==
    LET v_bp == IF o.value < 3000 THEN o.value * 100 ELSE o.value
    IN  Signal(o.indicator_id, v_bp < 28000, v_bp > 45000)

\* high-yield spread: a percent unit, or a value under 30, is taken as percent
\* and turned into bp; top under 280 bp, bottom over 450 bp
hy_signal(o) ==
    LET v_bp == IF o.unit = "percent" \/ o.value < 3000 THEN o.value * 100 ELSE o.value
    IN  Signal(o.indicator_id, v_bp < 28000, v_bp > 45000)

\* the order compute_signals goes through the indicators
SignalOrder ==
    << "bofa_bull_bear", "cnn_fear_greed_index", "cnn_put_call_options", "vix",
       "sp500_rsi", "sp500_pe_ratio", "nasdaq100_pe_ratio", "nasdaq100_above_20d_ma",
       "us_high_yield_spread" >>

SignalFor(ind, o, pe_percentile) ==
    CASE ind = "bofa_bull_bear" -> bull_bear_signal(o)
      [] ind = "cnn_fear_greed_index" -> fear_greed_signal(o)
      [] ind = "cnn_put_call_options" -> put_call_signal(o)
      [] ind = "vix" -> vix_signal(o)
      [] ind = "sp500_rsi" -> rsi_signal(o)
      [] ind = "sp500_pe_ratio" -> sp500_pe_signal(o, pe_percentile)
      [] ind = "nasdaq100_pe_ratio" -> nasdaq_pe_signal(o)
      [] ind = "nasdaq100_above_20d_ma" -> breadth_signal(o)
      [] ind = "us_high_yield_spread" -> hy_signal(o)

RECURSIVE SignalsFrom(_, _, _)
SignalsFrom(latest, pe_percentile, i) ==
    IF i > Len(SignalOrder) THEN <<>>
    ELSE LET o == DictGet(latest, SignalOrder[i])
         IN  (IF o = None THEN <<>>
              ELSE <<SignalFor(SignalOrder[i], o[1], pe_percentile)>>)
             \o SignalsFrom(latest, pe_percentile, i + 1)

\* compute_signals(latest, pe_percentile=...)
compute_signals(latest, pe_percentile) == SignalsFrom(latest, pe_percentile, 1)

\* the values drawn for an indicator: each threshold and its neighbours
SignalValues(ind) ==
    CASE ind = "bofa_bull_bear" -> {-2001, -2000, 0, 2000}
      [] ind = "cnn_fear_greed_index" -> {2500, 2501, 7499, 7500}
      [] ind = "cnn_put_call_options" -> {59, 60, 79, 80}
      [] ind = "vix" -> {1399, 1400, 2500, 2501}
      [] ind = "sp500_rsi" -> {3000, 3001, 6999, 7000}
      [] ind = "sp500_pe_ratio" -> {2200, 2201, 3199, 3200, 3500}
      [] ind = "nasdaq100_pe_ratio" -> {2799, 2800, 3500, 3501}
      [] ind = "nasdaq100_above_20d_ma" -> {1999, 2000, 8000, 8001}
      [] ind = "us_high_yield_spread" -> {283, 2999, 3000, 27999, 28000, 45000, 45001}

SignalObs(ind) ==
    {Observation(ind, 396, v, u, "manual", MetaNone) :
        v \in SignalValues(ind),
        u \in IF ind = "us_high_yield_spread" THEN {"bp", "percent"} ELSE {"x"}}

\* the snapshots that hold exactly the indicators of D
RECURSIVE SnapshotsOver(_)
SnapshotsOver(D) ==
    IF D = {} THEN {<<>>}
    ELSE LET ind == CHOOSE i \in D : TRUE
         IN  {[i \in D |-> IF i = ind THEN o ELSE f[i]] :
                  f \in SnapshotsOver(D \ {ind}), o \in SignalObs(ind)}

Snapshots ==
    UNION {SnapshotsOver(D) : D \in {E \in SUBSET IndicatorId : Cardinality(E) <= MaxPresent}}

\* pe_percentile: absent, or hundredths of [0, 1]
Percentiles == {None} \cup {Some(p) : p \in {0, 5, 10, 11, 50, 89, 90, 100}}

InitSignals ==
    /\ snap \in [latest : Snapshots, pe_percentile : Percentiles]
    /\ env = None
    /\ db = {}
    /\ lastWrite = [k \in AllKeys |-> None]
    /\ clock = 0
    /\ today = 396
    /\ op = Call("init", <<>>)
    /\ ret = <<>>
    /\ NoHistory
    /\ IdleRules
    /\ IdleWriters
    /\ IdleFetch
    /\ IdleApp

ComputeSignals ==
    /\ op' = Call("compute_signals", <<>>)
    /\ ret' = compute_signals(snap.latest, snap.pe_percentile)
    /\ UNCHANGED <<db, clock, today, lastWrite, histVars, ruleVars, concVars,
                   inputVars, appVars, fetchVars>>

NextSignals ==
    \/ ComputeSignals

SpecSignals == InitSignals /\ [][NextSignals]_vars

\* ret is the list compute_signals returned for the snapshot
SignalsReturned == op.name = "compute_signals"

\* at most one Signal per indicator, each for an indicator of the snapshot
OnePerPresentIndicator ==
    /\ \A i, j \in DOMAIN ret : ret[i].indicator_id = ret[j].indicator_id => i = j
    /\ \A i \in DOMAIN ret : ret[i].indicator_id \in DOMAIN snap.latest

\* the claim as it is stated: at most one Signal per indicator, only for the
\* indicators of the snapshot, and none with top and bottom both true
C19_NoSignalBothTopAndBottom ==
    SignalsReturned =>
        /\ OnePerPresentIndicator
        /\ \A i \in DOMAIN ret : ~(ret[i].top /\ ret[i].bottom)

\* the S&P 500 P/E and the percentile point opposite ways
PeAgainstPercentile ==
    /\ "sp500_pe_ratio" \in DOMAIN snap.latest
    /\ snap.pe_percentile # None
    /\ \/ snap.latest["sp500_pe_ratio"].value >= 3200 /\ snap.pe_percentile[1] <= 10
       \/ snap.latest["sp500_pe_ratio"].value <= 2200 /\ snap.pe_percentile[1] >= 90

\* C19: compute_signals returns at most one Signal per indicator, only for
\* the indicators of the snapshot, and no Signal but the S&P 500 P/E one has
\* top and bottom both true; the S&P 500 P/E one has both exactly when the
\* value is >= 32 with a percentile <= 0.1, or <= 22 with a percentile >= 0.9
C19_BothOnlyForPeAgainstPercentile ==
    SignalsReturned =>
        /\ OnePerPresentIndicator
        /\ \A i \in DOMAIN ret :
              (ret[i].top /\ ret[i].bottom)
                  <=> (ret[i].indicator_id = "sp500_pe_ratio" /\ PeAgainstPercentile)

\* a P/E of 35 at the 5th percentile beside a second indicator: two Signals,
\* the P/E one top and bottom at once
C19_Witness ==
    /\ SignalsReturned
    /\ Len(ret) = 2
    /\ snap.pe_percentile = Some(5)
    /\ \E i \in DOMAIN ret :
          /\ ret[i].indicator_id = "sp500_pe_ratio"
          /\ snap.latest["sp500_pe_ratio"].value = 3500
          /\ ret[i].top /\ ret[i].bottom
    /\ \E i \in DOMAIN ret : ret[i].indicator_id = "cnn_put_call_options" /\ ~ret[i].top

----------------------------------------------------------------------------
(* The evaluation surface: cli.py evaluate and the rows of the dashboard *)

\* a row of evaluate's table; "-" in the date and value columns is None here
EvalRow(ind, as_of, value, label, note) ==
    [id |-> ind, as_of |-> as_of, value |-> value, alert |-> label, note |-> note]

\* the body of evaluate's loop for one indicator
evaluate_row(table, ind, day) ==
    LET latest == latest_observation(table, ind)
        h30 == recent_observations(table, ind, 35, day)
        h365 == recent_observations(table, ind, 370, day)
    IN  IF latest = None
        THEN EvalRow(ind, None, None, "No data", "Run ingest or fetch first")
        ELSE IF ind \notin RuleIds
        THEN EvalRow(ind, Some(IsoFormat(latest[1].as_of)), Some(latest[1].value),
                     "Neutral", "No rule yet")
        ELSE LET a == ApplyRule(ind, RuleContext(latest, h30, h365))
             IN  EvalRow(ind, Some(IsoFormat(latest[1].as_of)), Some(latest[1].value),
                         IF a # None THEN a[1].level ELSE "Neutral",
                         IF a # None THEN "title" ELSE "Not triggered")

\* mutant: an indicator without data gets no row, as in compute_alerts
RECURSIVE EvaluateFrom(_, _, _, _)
EvaluateSkippingNoData(table, targets, i, day) ==
    IF i > Len(targets) THEN <<>>
    ELSE (IF latest_observation(table, targets[i]) = None THEN <<>>
          ELSE <<evaluate_row(table, targets[i], day)>>)
         \o EvaluateFrom(table, targets, i + 1, day)

\* evaluate's loop from the i-th target on
EvaluateFrom(table, targets, i, day) ==
    IF i > Len(targets) THEN <<>>
    ELSE <<evaluate_row(table, targets[i], day)>> \o EvaluateFrom(table, targets, i + 1, day)

\* evaluate(only=...), without --refresh: the rows of the table it prints
evaluate(table, only, day) ==
    EvaluateFrom(table, IF only # None THEN <<only[1]>> ELSE ALL_INDICATORS, 1, day)

\* a row of the dashboard's latest_rows: the high-yield spread is shown in
\* percent with two decimals, the date as month and day
latest_row(latest, ind) ==
    IF ind \notin DOMAIN latest
    THEN [id |-> ind, as_of |-> None, value |-> None, unit |-> None, source |-> None]
    ELSE LET o == latest[ind]
             text == IsoFormat(o.as_of)
         IN  [id |-> ind,
              as_of |-> Some(<<text[2], text[3]>>),
              value |-> Some(IF ind = "us_high_yield_spread"
                             THEN (o.value + 50) \div 100 ELSE o.value),
              unit |-> Some(IF (ind = "us_high_yield_spread" /\ o.unit = "bp")
                               \/ o.unit = "percent" THEN "%" ELSE o.unit),
              source |-> Some(o.source)]

\* latest_rows of the index page: one row per entry of ALL_INDICATORS
latest_rows(table) ==
    LET latest == list_latest(table)
    IN  [i \in DOMAIN ALL_INDICATORS |-> latest_row(latest, ALL_INDICATORS[i])]

\* what providers and manual entry may have left in the store
EvalObs ==
    { Observation("bofa_bull_bear", 396, 2500, "%", "YCharts:AAII", MetaNone),
      Observation("cnn_fear_greed_index", 361, 1800, "0-100", "CNN:dataviz", FearMeta),
      Observation("cnn_fear_greed_index", 396, 8000, "0-100", "CNN:dataviz", FearMeta),
      Observation("us_high_yield_spread", 366, 41000, "bp", "TradingEconomics", RawPercentMeta),
      Observation("us_high_yield_spread", 396, 52000, "bp", "TradingEconomics", RawPercentMeta),
      Observation("sp500_pe_ratio", 396, 3128, "x", "multpl.com", MetaNone),
      Observation("vix", 396, 1650, "index", "Yahoo Finance", MetaNone),
      Observation("sp500_rsi", 390, 6986, "0-100", "Investing.com", MetaNone) }

EvalStores ==
    {{ObsToRow(o, 0) : o \in S} \cup old : S \in SUBSET EvalObs, old \in {{}, {RemovedRow}}}

InitEval ==
    /\ db \in EvalStores
    /\ lastWrite = [k \in AllKeys |-> None]
    /\ clock = 0
    /\ today \in Todays
    /\ op = Call("init", <<>>)
    /\ ret = <<>>
    /\ NoHistory
    /\ IdleRules
    /\ IdleWriters
    /\ IdleInputs
    /\ IdleFetch
    /\ IdleApp

\* trader evaluate [--only ind]
EvaluateCommand(only) ==
    /\ op' = Call("evaluate", <<only>>)
    /\ ret' = evaluate(db, only, today)
    /\ UNCHANGED <<db, clock, today, lastWrite, histVars, ruleVars, concVars,
                   inputVars, appVars, fetchVars>>

\* the index page builds its rows
LatestRows ==
    /\ op' = Call("latest_rows", <<>>)
    /\ ret' = latest_rows(db)
    /\ UNCHANGED <<db, clock, today, lastWrite, histVars, ruleVars, concVars,
                   inputVars, appVars, fetchVars>>

NextEval ==
    \/ \E only \in {None} \cup {Some(ind) : ind \in IndicatorId} : EvaluateCommand(only)
    \/ LatestRows

SpecEval == InitEval /\ [][NextEval]_vars

\* the targets of the last evaluate
EvalTargets == IF op.args[1] # None THEN <<op.args[1][1]>> ELSE ALL_INDICATORS

\* the date of the newest stored row of an indicator
NewestText(ind) ==
    CHOOSE t \in {r.as_of : r \in RowsOf(db, ind)} :
        \A r \in RowsOf(db, ind) : TextLeq(r.as_of, t)

\* C14: for any store, evaluate yields exactly one row per target indicator,
\* in ALL_INDICATORS order: a "No data" row when the indicator has no stored
\* observation, a "No rule yet" row when it has one but no registered rule,
\* and otherwise the BULL, BEAR or NEUTRAL level of its rule on the newest
\* observation; a registered rule returns no alert only when there is no
\* latest observation; the dashboard's rows are one per indicator of
\* ALL_INDICATORS as well, empty where the store has nothing
C14_OneRowPerIndicator ==
    /\ op.name = "evaluate" =>
          /\ Len(ret) = Len(EvalTargets)
          /\ \A i \in DOMAIN ret :
                LET ind == EvalTargets[i]
                    row == ret[i]
                IN  /\ row.id = ind
                    /\ IF RowsOf(db, ind) = {}
                       THEN row.alert = "No data" /\ row.as_of = None /\ row.value = None
                       ELSE /\ row.as_of = Some(NewestText(ind))
                            /\ IF ind \notin RuleIds
                               THEN row.alert = "Neutral" /\ row.note = "No rule yet"
                               ELSE /\ row.alert \in {BULL, BEAR, NEUTRAL}
                                    /\ row.note = "title"
                                    /\ AlertOf(db, ind, today) # None
                                    /\ row.alert = AlertOf(db, ind, today)[1].level
          /\ \A ind \in RuleIds :
                AlertOf(db, ind, today) = None <=> RowsOf(db, ind) = {}
    /\ op.name = "latest_rows" =>
          /\ Len(ret) = Len(ALL_INDICATORS)
          /\ \A i \in DOMAIN ret :
                /\ ret[i].id = ALL_INDICATORS[i]
                /\ IF RowsOf(db, ALL_INDICATORS[i]) = {}
                   THEN ret[i].as_of = None /\ ret[i].value = None
                   ELSE ret[i].as_of = Some(<<NewestText(ALL_INDICATORS[i])[2],
                                              NewestText(ALL_INDICATORS[i])[3]>>)

\* evaluate over all indicators on a store with a row of a removed indicator:
\* a BEAR row, a "No rule yet" row and "No data" rows, nine in all
C14_Witness ==
    /\ op = Call("evaluate", <<None>>)
    /\ RemovedRow \in db
    /\ Len(ret) = 9
    /\ \E i, j, k \in DOMAIN ret :
          /\ ret[i].alert = "No data"
          /\ ret[j].note = "No rule yet"
          /\ ret[k].alert = BEAR /\ ret[k].id = "us_high_yield_spread"

----------------------------------------------------------------------------
(* Claims about the last-fetch times of the dashboard *)

\* name p is in the sequence s
InSeq(p, s) == \E i \in DOMAIN s : s[i] = p

\* the step is a dashboard pass, forced or not, that went through its names
DashboardPassRan == PassRan /\ pass'.kind = "dashboard"

\* the pass of the step reached name p and its fetch raised, or does not know p
FailedIn(p, ps) == InSeq(p, ps.err)

\* the pass of the step fetched p and the fetch returned
ReturnedIn(p, ps) == InSeq(p, ps.attempted) /\ ~ps.outcome[p].raised

\* what a dashboard pass does to the last-fetch times: a raise or an unknown
\* name leaves the time of the name as it was, a return, of observations or of
\* none, sets it to the time the pass started; forced or not
StampsOnReturnOnly ==
    DashboardPassRan =>
        \A p \in ProviderNames :
            /\ FailedIn(p, pass') => last_fetch_at'[p] = last_fetch_at[p]
            /\ ReturnedIn(p, pass') => last_fetch_at'[p] = Some(pass'.now)
            /\ (~FailedIn(p, pass') /\ ~ReturnedIn(p, pass')) =>
                  last_fetch_at'[p] = last_fetch_at[p]

\* the step is a non-forced request of the enabled dashboard that directly
\* follows a dashboard pass in which p failed
NextRequestAfterFailure(p) ==
    /\ pass.kind = "dashboard" /\ (conf.auto_fetch \/ pass.requested)
    /\ FailedIn(p, pass)
    /\ DashboardPassRan /\ ~pass'.requested /\ conf.auto_fetch

\* p is reached by the pass of the step: fetched, or reported as unknown
ReachedIn(p, ps) == InSeq(p, ps.attempted) \/ InSeq(p, ps.err)

----------------------------------------------------------------------------
(* The CLI's fetch-all pass when every source answers *)

\* what each provider hands over when its source answers; the HTTP provider
\* with a configuration file that names no indicator returns nothing
ProviderObs(p, day) ==
    CASE p = "cnn" -> CnnObs(day)
      [] p = "fred" -> FredObs(day)
      [] p = "vix" -> <<Observation("vix", day, 1650, "index", "Yahoo Finance",
                                    MetaDict({<<"rating", "">>}))>>
      [] p = "multpl" -> <<Observation("sp500_pe_ratio", day, 3128, "x", "multpl.com",
                                       MetaDict({<<"reported", "">>}))>>
      [] p = "nasdaqpe" -> <<Observation("nasdaq100_pe_ratio", day, 3350, "x", "Barron's",
                                         MetaDict({<<"method", "anchored_html">>}))>>
      [] p = "rsi" -> <<Observation("sp500_rsi", day, 6986, "0-100", "Investing.com",
                                    MetaDict({<<"url", "Investing.com">>}))>>
      [] p = "ycharts" -> <<Observation("bofa_bull_bear", day, 2500, "%", "YCharts:AAII",
                                        MetaDict({<<"definition", "AAII Bull% - Bear%">>}))>>
      [] p = "ndtw" -> <<Observation("nasdaq100_above_20d_ma", day, 5500, "percent",
                                     "Barchart", MetaDict({<<"url", "Barchart">>}))>>
      [] OTHER -> <<>>

\* every source answers
AllSucceed(day) == [p \in KnownProviders |-> Got(ProviderObs(p, day))]

CliOutcomes(day) == PassOutcomes(day) \cup {AllSucceed(day)}

InitCli == InitFetch

NextCli ==
    \/ Later
    \/ \E outcome \in CliOutcomes(today) : CliFetchAll(outcome)

SpecCli == InitCli /\ [][NextCli]_vars

\* the step is a CLI fetch-all pass
CliPassRan == PassRan /\ pass'.kind = "cli"

\* the providers with a source of their own all returned observations
AllSourcesSucceeded(outcome) ==
    \A p \in KnownProviders :
        ~outcome[p].raised /\ (p # "http" => outcome[p].obs # <<>>)

\* C30: the CLI fetch-all pass attempts every provider _fetch_into_db accepts
\* by name, so that each indicator of ALL_INDICATORS has a provider of its own
\* attempted and, when all sources succeed, has a stored observation after
\* the pass
C30_CliPassAttemptsEveryProvider ==
    [][CliPassRan =>
        /\ \A p \in KnownProviders : InSeq(p, pass'.attempted)
        /\ \A i \in DOMAIN ALL_INDICATORS :
              \E p \in DOMAIN Supported :
                  InSeq(p, pass'.attempted) /\ ALL_INDICATORS[i] \in Supported[p]
        /\ AllSourcesSucceeded(pass'.outcome) =>
              \A i \in DOMAIN ALL_INDICATORS : RowsOf(db', ALL_INDICATORS[i]) # {}
    ]_vars

----------------------------------------------------------------------------
(* Claims about the order of the sources of one provider *)

\* the sources of the multi-source providers, in the order of their strategies
SourceChain(name) ==
    CASE name = "rsi" -> <<"investing", "investtech", "tradingview_rsi">>
      [] name = "vix" -> <<"yahoo", "cnn_graph">>
      [] name = "ndtw" -> <<"barchart", "tradingview_ndtw">>
      [] name = "fred" ->
            IF env["settings"].fred_api_key
            THEN <<"tradingeconomics", "fred_api", "fred_files">>
            ELSE <<"tradingeconomics", "fred_files">>

\* the public FRED files are one source of two addresses: the text file, and
\* the CSV when the text file gave no text
FilesOfFred == fetch_hy_oas_files(env, <<>>)

\* the requests one source takes
RequestsOf(site) == IF site = "fred_files" THEN FilesOfFred.requests ELSE <<site>>

RECURSIVE RequestsOfAll(_)
RequestsOfAll(chain) ==
    IF chain = <<>> THEN <<>> ELSE RequestsOf(Head(chain)) \o RequestsOfAll(Tail(chain))

\* a value read off the answer of the source, when the answer has a plausible one
Yield(site) ==
    LET resp == IF site = "fred_files" THEN env["fred_txt"] ELSE env[site]
        api == HeadOrNone(SelectSeq(IF resp.status = Ok THEN resp.rows ELSE <<>>,
                                    LAMBDA row : row.value # None))
        file == IF FilesOfFred.raised THEN None ELSE Some(FilesOfFred.obs[1].value)
        te == te_fetch_hy_oas_percent(resp, today)
        rsi == fetch_rsi_site(resp, today, site)
        ndtw == fetch_ndtw_site(resp, today, site)
    IN  CASE site = "tradingeconomics" -> IF te = None THEN None ELSE Some(te[1].value * 100)
          [] site = "fred_api" ->
                IF api = None \/ api[1].date = None THEN None ELSE Some(api[1].value[1] * 100)
          [] site = "fred_files" -> file
          [] site \in {"investing", "investtech", "tradingview_rsi"} ->
                IF rsi = None THEN None ELSE Some(rsi[1].value)
          [] site \in {"barchart", "tradingview_ndtw"} ->
                IF ndtw = None \/ ndtw[1].value < 1000 \/ ndtw[1].value > 10000
                THEN None ELSE Some(ndtw[1].value)
          [] site = "yahoo" -> vix_value(resp.status, resp.match)
          [] site = "cnn_graph" -> vix_value(resp.status, resp.vix)

\* the sources up to the first that yields, all of them when none does
UpToFirstYield(chain) ==
    LET yielding == {i \in DOMAIN chain : Yield(chain[i]) # None}
    IN  IF yielding = {} THEN chain
        ELSE SubSeq(chain, 1, CHOOSE i \in yielding : \A j \in yielding : i <= j)

\* the last call asked the provider for an indicator of its own
AsksOwnIndicator ==
    \E i \in DOMAIN op.args[2] : op.args[2][i] \in Supported[op.args[1]]

\* the providers of names go through their sources in order, skip a source
\* that raises or yields nothing plausible, stop at the first that yields and
\* return its value
SourcesInOrder(names) ==
    (op.name = "fetch" /\ op.args[1] \in names /\ AsksOwnIndicator) =>
        LET chain == SourceChain(op.args[1])
            asked == UpToFirstYield(chain)
            value == Yield(asked[Len(asked)])
        IN  /\ ret.requests = RequestsOfAll(asked)
            /\ IF value = None THEN ret.obs = <<>>
               ELSE ~ret.raised /\ Len(ret.obs) = 1 /\ ret.obs[1].value = value[1]

\* C21: each multi-source provider (RSI, VIX, breadth, high-yield spread)
\* attempts its sources in its fixed order and stops at the first one that
\* yields a plausible value, requesting no later source; a source that raises
\* or yields nothing or an implausible value is skipped and the next is tried
C21_SourcesTriedInPriorityOrder == SourcesInOrder({"rsi", "vix", "ndtw", "fred"})

----------------------------------------------------------------------------
(* Claims about the high-yield spread signal *)

\* the spread of the snapshot and the Signal returned for it
SpreadSignal == CHOOSE s \in {ret[i] : i \in DOMAIN ret} :
                    s.indicator_id = "us_high_yield_spread"

SpreadSignalled ==
    /\ SignalsReturned
    /\ "us_high_yield_spread" \in DOMAIN snap.latest
    /\ \E i \in DOMAIN ret : ret[i].indicator_id = "us_high_yield_spread"

\* top iff under 280 bp, bottom iff over 450 bp
SpreadThresholds(v_bp) ==
    /\ SpreadSignal.top <=> v_bp < 28000
    /\ SpreadSignal.bottom <=> v_bp > 45000

\* C22 as stated: compute_signals converts the spread to basis points by its
\* magnitude alone, a value below 30 being multiplied by 100 and a value of 30
\* or more taken as basis points, then sets top iff bp < 280 and bottom iff
\* bp > 450
C22_SpreadConvertedByMagnitude ==
    ("us_high_yield_spread" \in DOMAIN snap.latest /\ SignalsReturned) =>
        /\ SpreadSignalled
        /\ LET o == snap.latest["us_high_yield_spread"]
           IN  SpreadThresholds(IF o.value < 3000 THEN o.value * 100 ELSE o.value)

\* C22, amended: a value whose unit is "percent", or that is below 30, is
\* multiplied by 100, any other value is taken as basis points; top iff
\* bp < 280, bottom iff bp > 450
C22_SpreadConvertedByUnitOrMagnitude ==
    ("us_high_yield_spread" \in DOMAIN snap.latest /\ SignalsReturned) =>
        /\ SpreadSignalled
        /\ LET o == snap.latest["us_high_yield_spread"]
           IN  SpreadThresholds(IF o.unit = "percent" \/ o.value < 3000
                                THEN o.value * 100 ELSE o.value)

\* a spread of 280 with unit "percent": multiplied by 100 it is a bottom
\* signal, where 280 bp would be neither top nor bottom
C22_Witness ==
    /\ SpreadSignalled
    /\ snap.latest["us_high_yield_spread"].unit = "percent"
    /\ snap.latest["us_high_yield_spread"].value = 28000
    /\ SpreadSignal.bottom /\ ~SpreadSignal.top

----------------------------------------------------------------------------
(* Manual ingest: providers/manual.py ManualProvider.fetch and cli.py ingest *)
(* env is the manual-input document as yaml.safe_load returns it            *)

\* the most entries a drawn document holds
MaxEntries == 2

\* a scalar of the document: absent, a number, a text, a date, a list
Absent == [kind |-> "absent", v |-> 0, iso |-> <<>>]
Number(v) == [kind |-> "number", v |-> v, iso |-> <<>>]
Text(iso) == [kind |-> "text", v |-> 0, iso |-> iso]
DateValue(d) == [kind |-> "date", v |-> d, iso |-> <<>>]
ListValue == [kind |-> "list", v |-> 0, iso |-> <<>>]
DictValue == [kind |-> "dict", v |-> 0, iso |-> <<>>]

\* one entry of the document: a mapping or not, its indicator id (the key of
\* the top-level dict, or the item's indicator_id), and the payload's fields
Entry(mapping, id, value, as_of, unit, source, meta) ==
    [mapping |-> mapping, id |-> id, value |-> value, as_of |-> as_of,
     unit |-> unit, source |-> source, meta |-> meta]

\* date.fromisoformat accepts the text
ValidIso(t) ==
    /\ Len(t) = 3
    /\ t[2] \in 1..12
    /\ t[3] >= 1 /\ t[3] <= DaysInMonth(t[1], t[2])

\* _as_date: a date as it is, an ISO text parsed, anything else raises
as_date(v) ==
    IF v.kind = "date" THEN Some(v.v)
    ELSE IF v.kind = "text" /\ ValidIso(v.iso) THEN Some(FromIsoFormat(v.iso))
    ELSE None

\* ManualProvider._parse_one: None when it raises
parse_one(ind, payload, day) ==
    LET unit == IF payload.unit = "" THEN "%" ELSE payload.unit
        as_of == IF payload.as_of.kind = "absent" THEN Some(day)
                 ELSE as_date(payload.as_of)
        source == IF payload.source = "" THEN "manual" ELSE payload.source
    IN  IF payload.value.kind # "number" THEN None
        ELSE IF as_of = None THEN None
        ELSE IF payload.meta.kind \notin {"absent", "dict"} THEN None
        ELSE Some(Observation(ind, as_of[1], payload.value.v, unit, source, MetaDict({})))

\* the two loops of ManualProvider.fetch from the i-th entry on: the top-level
\* dict looks the key up in IndicatorId before it looks at the payload, the
\* top-level list wants a mapping before it reads indicator_id
RECURSIVE ManualFrom(_, _, _, _, _)
ManualFrom(doc, wanted, i, day, out) ==
    IF i > Len(doc.entries) THEN Got(out)
    ELSE LET e == doc.entries[i]
             known == e.id # None /\ e.id[1] \in IndicatorId
             o == parse_one(e.id[1], e, day)
         IN  IF doc.format = "list" /\ ~e.mapping THEN Raised
             ELSE IF ~known THEN Raised
             ELSE IF e.id[1] \notin wanted
             THEN ManualFrom(doc, wanted, i + 1, day, out)
             ELSE IF ~e.mapping THEN Raised
             ELSE IF o = None THEN Raised
             ELSE ManualFrom(doc, wanted, i + 1, day, Append(out, o[1]))

\* ManualProvider.fetch(indicator_ids)
ManualProvider_fetch(doc, indicator_ids, day) ==
    LET wanted == IF indicator_ids = <<>> THEN {ALL_INDICATORS[i] : i \in DOMAIN ALL_INDICATORS}
                  ELSE {indicator_ids[i] : i \in DOMAIN indicator_ids}
    IN  IF doc.format = "empty" THEN Got(<<>>)
        ELSE IF doc.format \notin {"dict", "list"} THEN Raised
        ELSE ManualFrom(doc, wanted, 1, day, <<>>)

\* mutant: each entry is written as soon as it is parsed
IngestEntryByEntry(table, doc, now, day) ==
    LET upTo == [n \in 0..Len(doc.entries) |->
                    ManualProvider_fetch([doc EXCEPT !.entries = SubSeq(@, 1, n)],
                                         ALL_INDICATORS, day)]
        good == {n \in DOMAIN upTo : ~upTo[n].raised}
        most == CHOOSE n \in good : \A k \in good : k <= n
        r == ManualProvider_fetch(doc, ALL_INDICATORS, day)
        w == upsert_observations(table, upTo[most].obs, now)
    IN  IF doc.format \notin {"dict", "list"}
        THEN [raised |-> r.raised, table |-> table, n |-> 0]
        ELSE [raised |-> r.raised, table |-> w.table, n |-> w.rowcount]

\* trader ingest: the document is parsed whole, then written in one upsert
ingest(table, doc, now, day) ==
    LET r == ManualProvider_fetch(doc, ALL_INDICATORS, day)
        w == upsert_observations(table, r.obs, now)
    IN  IF r.raised THEN [raised |-> TRUE, table |-> table, n |-> 0]
        ELSE [raised |-> FALSE, table |-> w.table, n |-> w.rowcount]

\* the entries the documents are made of: two that parse, and one for each way
\* an entry can fail to
GoodFear == Entry(TRUE, Some("cnn_fear_greed_index"), Number(1800),
                  Text(<<2025, 1, 31>>), "", "", Absent)
GoodSpread == Entry(TRUE, Some("us_high_yield_spread"), Number(28300),
                    Absent, "bp", "FRED", DictValue)
UnknownId == [GoodFear EXCEPT !.id = Some("bofa_fms_cash_level")]
NotMapping == [GoodSpread EXCEPT !.mapping = FALSE]
MissingValue == [GoodFear EXCEPT !.value = Absent]
TextForValue == [GoodSpread EXCEPT !.value = Text(<<>>)]
NoSuchDay == [GoodFear EXCEPT !.as_of = Text(<<2025, 2, 30>>)]
NumberForDate == [GoodSpread EXCEPT !.as_of = Number(20250318)]
ListForMeta == [GoodFear EXCEPT !.meta = ListValue]

BadEntries ==
    {UnknownId, NotMapping, MissingValue, TextForValue, NoSuchDay, NumberForDate,
     ListForMeta}

Entries == {GoodFear, GoodSpread} \cup BadEntries

\* the documents: an empty file, a scalar, a top-level list, and a top-level
\* dict, whose keys differ
Documents ==
    LET KeysDiffer(es) == \A i, j \in DOMAIN es : es[i].id = es[j].id => i = j
    IN  {[format |-> f, entries |-> <<>>] : f \in {"empty", "scalar"}}
        \cup {[format |-> "list", entries |-> es] : es \in SeqsUpTo(Entries, MaxEntries)}
        \cup {[format |-> "dict", entries |-> es] :
                 es \in {s \in SeqsUpTo(Entries, MaxEntries) : KeysDiffer(s)}}

\* a row an earlier ingest wrote for the day of GoodFear
EarlierRow ==
    ObsToRow(Observation("cnn_fear_greed_index", 396, 8000, "%", "manual", MetaNone), 0)

InitIngest ==
    /\ env \in Documents
    /\ snap = None
    /\ db \in {{}, {EarlierRow}}
    /\ lastWrite = [k \in AllKeys |-> None]
    /\ clock = 0
    /\ today = 396
    /\ op = Call("init_db", <<>>)
    /\ ret = None
    /\ NoHistory
    /\ IdleRules
    /\ IdleWriters
    /\ IdleFetch
    /\ IdleApp

\* trader ingest --file manual_input.yaml
Ingest ==
    LET r == ingest(db, env, clock, today)
    IN  /\ op' = Call("ingest", <<>>)
        /\ ret' = [raised |-> r.raised, n |-> r.n]
        /\ db' = r.table
        /\ UNCHANGED <<clock, today, lastWrite, histVars, ruleVars, concVars,
                       inputVars, appVars, fetchVars>>

NextIngest ==
    \/ Tick
    \/ Ingest

SpecIngest == InitIngest /\ [][NextIngest]_vars

\* the step is a run of trader ingest
IngestRan == op'.name = "ingest" /\ clock' = clock

\* the document has an entry that cannot be parsed: an indicator id outside the
\* enumeration, a payload that is no mapping, a value missing or not a number,
\* a date that is no date
HasUnparsableEntry ==
    \E i \in DOMAIN env.entries :
        LET e == env.entries[i]
        IN  \/ e.id = None \/ e.id[1] \notin IndicatorId
            \/ ~e.mapping
            \/ e.value.kind # "number"
            \/ e.as_of.kind \in {"number", "list", "dict"}
            \/ e.as_of.kind = "text" /\ ~ValidIso(e.as_of.iso)

\* the rows of the document's entries, written at the time of the step
RowsOfDocument ==
    {ObsToRow(Observation(e.id[1],
                          IF e.as_of.kind = "absent" THEN today
                          ELSE FromIsoFormat(e.as_of.iso),
                          e.value.v,
                          IF e.unit = "" THEN "%" ELSE e.unit,
                          IF e.source = "" THEN "manual" ELSE e.source,
                          MetaDict({})), clock) :
        e \in {env.entries[i] : i \in DOMAIN env.entries}}

----------------------------------------------------------------------------
(* The dashboard's auto-fetch switch: POST /api/toggle-autofetch *)

InitToggle == InitFetch

\* toggle_autofetch: app.state.auto_fetch_enabled is negated and reported
ToggleAutofetch ==
    /\ auto_fetch_enabled' = ~auto_fetch_enabled
    /\ op' = Call("toggle_autofetch", <<>>)
    /\ ret' = [success |-> TRUE, auto_fetch |-> ~auto_fetch_enabled]
    /\ UNCHANGED <<db, clock, today, lastWrite, histVars, ruleVars, concVars,
                   inputVars, fetchVars, reqs, marketVars, acall>>

NextToggle ==
    \/ Later
    \/ ToggleAutofetch
    \/ \E requested \in BOOLEAN, outcome \in PassOutcomes(today) :
          DashboardFetch(requested, outcome)

SpecToggle == InitToggle /\ [][NextToggle]_vars

\* the step is an index request without refresh=1
NonForcedRequest ==
    /\ pass'.kind = "dashboard" /\ ~pass'.requested /\ pass'.now = clock
    /\ clock' = clock
    /\ auto_fetch_enabled' = auto_fetch_enabled

\* C25: the auto-fetch flag the dashboard reports and the gating of the fetch
\* agree: once the toggle has switched auto-fetch off a non-forced request
\* fetches no provider, once it has switched it on a non-forced request
\* fetches the providers whose cooldown is over
C25_ToggleGatesAutoFetch ==
    [][NonForcedRequest =>
        LET Due(p) == p \in KnownProviders /\ CooldownOver(p)
        IN  IF auto_fetch_enabled
            THEN pass'.attempted = SelectSeq(conf.providers, Due)
            ELSE pass'.attempted = <<>> /\ db' = db /\ last_fetch_at' = last_fetch_at
    ]_vars

----------------------------------------------------------------------------
(* Index requests in worker threads: _auto_fetch_now step by step.  The     *)
(* endpoint is a plain def, which the server runs in a thread pool, and     *)
(* last_fetch_at is a dict without a lock: the cooldown test, the fetch     *)
(* and the recording of the fetch time are three steps of a thread          *)

Requests == {1, 2}

IdleRequest == [pc |-> "idle", requested |-> FALSE, now |-> 0, i |-> 0, fetched |-> <<>>]

RaceConfigs ==
    { [auto_fetch |-> TRUE, providers |-> <<"cnn", "fred">>, cooldown |-> 2],
      [auto_fetch |-> FALSE, providers |-> <<"cnn", "nosuch">>, cooldown |-> 1] }

InitRace ==
    /\ db = {}
    /\ lastWrite = [k \in AllKeys |-> None]
    /\ clock = 0
    /\ today = 396
    /\ op = Call("init_db", <<>>)
    /\ ret = None
    /\ NoHistory
    /\ IdleRules
    /\ IdleWriters
    /\ IdleInputs
    /\ conf \in RaceConfigs
    /\ last_fetch_at = [p \in ProviderNames |-> None]
    /\ pass = NoPass
    /\ auto_fetch_enabled = conf.auto_fetch
    /\ reqs = [r \in Requests |-> IdleRequest]
    /\ acall = <<>>
    /\ IdleMarket

\* what a step of an index request leaves alone, the store and the fetch
\* times apart
besideRequest ==
    <<clock, today, op, ret, lastWrite, histVars, ruleVars, concVars, inputVars,
      conf, pass, auto_fetch_enabled, marketVars, acall>>

\* a request enters _auto_fetch_now: it returns at once when neither auto_fetch
\* nor refresh=1 holds, else it takes the time and starts the loop
BeginRequest(r, requested) ==
    /\ reqs[r].pc = "idle"
    /\ reqs' = [reqs EXCEPT ![r] =
                  IF ~(conf.auto_fetch \/ requested)
                  THEN [@ EXCEPT !.pc = "done", !.requested = requested]
                  ELSE [@ EXCEPT !.pc = "loop", !.requested = requested,
                                 !.now = clock, !.i = 1]]
    /\ UNCHANGED <<db, last_fetch_at, besideRequest>>

\* the head of the loop for the next name: past the list the request is done;
\* a name inside its cooldown is skipped unless refresh=1; an unknown name is
\* reported; else the provider's fetch is called
CheckProvider(r) ==
    /\ reqs[r].pc = "loop"
    /\ reqs' = [reqs EXCEPT ![r] =
                  IF @.i > Len(conf.providers) THEN [@ EXCEPT !.pc = "done"]
                  ELSE IF ~@.requested
                          /\ ~should_fetch(last_fetch_at, conf.providers[@.i], @.now,
                                           conf.cooldown)
                  THEN [@ EXCEPT !.i = @ + 1]
                  ELSE IF conf.providers[@.i] \notin KnownProviders
                  THEN [@ EXCEPT !.i = @ + 1]
                  ELSE [@ EXCEPT !.pc = "fetch"]]
    /\ UNCHANGED <<db, last_fetch_at, besideRequest>>

\* the provider's fetch comes back: a raise is reported; a return is written to
\* the store when it has observations, and the time of the pass is recorded
FinishFetch(r, raised) ==
    /\ reqs[r].pc = "fetch"
    /\ LET name == conf.providers[reqs[r].i]
           obs == ProviderObs(name, today)
       IN  IF raised
           THEN /\ reqs' = [reqs EXCEPT ![r].pc = "loop", ![r].i = @ + 1]
                /\ UNCHANGED <<db, last_fetch_at>>
           ELSE /\ reqs' = [reqs EXCEPT ![r].pc = "loop", ![r].i = @ + 1,
                                        ![r].fetched = Append(@, name)]
                /\ db' = IF obs # <<>> THEN upsert_observations(db, obs, clock).table
                         ELSE db
                /\ last_fetch_at' = [last_fetch_at EXCEPT ![name] = Some(reqs[r].now)]
    /\ UNCHANGED besideRequest

NextRace ==
    \/ Later
    \/ \E r \in Requests, requested \in BOOLEAN : BeginRequest(r, requested)
    \/ \E r \in Requests : CheckProvider(r)
    \/ \E r \in Requests, raised \in BOOLEAN : FinishFetch(r, raised)

SpecRace == InitRace /\ [][NextRace]_vars

\* C23: with index requests handled concurrently, a provider is fetched by at
\* most one non-forced request per cooldown window: no two non-forced requests
\* both fetch the same provider within less than cooldown seconds of each other
C23_OneFetchPerCooldownWindow ==
    \A r1, r2 \in Requests :
        (/\ r1 # r2
         /\ ~reqs[r1].requested /\ ~reqs[r2].requested
         /\ reqs[r1].now <= reqs[r2].now
         /\ \E p \in KnownProviders :
               InSeq(p, reqs[r1].fetched) /\ InSeq(p, reqs[r2].fetched))
        => reqs[r2].now - reqs[r1].now >= conf.cooldown

----------------------------------------------------------------------------
(* The market overview cache: _kick_market_refresh and its thread _run.     *)
(* Every `with market_lock:` block is one step, the lock letting no other   *)
(* block in between; time is counted in minutes in this section             *)

\* the cache is fresh for 60 seconds
MarketTtl == 1

\* the threads a refresh can run in
Refreshers == {1, 2}

NoRefresh == [pc |-> "idle", raised |-> FALSE, rows |-> <<>>]

IdleMarketRequest == [pc |-> "idle", endpoint |-> "", force |-> FALSE]

\* what get_us_index_overview_rows can return: no symbol answered, some did,
\* all did
RowLists == {<<>>, <<"^spx">>, <<"^spx", "^dji", "^ndq">>}

InitMarket ==
    /\ db = {}
    /\ lastWrite = [k \in AllKeys |-> None]
    /\ clock = 0
    /\ today = 396
    /\ op = Call("create_app", <<>>)
    /\ ret = None
    /\ NoHistory
    /\ IdleRules
    /\ IdleWriters
    /\ IdleInputs
    /\ IdleFetch
    /\ auto_fetch_enabled = FALSE
    /\ acall = <<>>
    /\ reqs = [r \in Requests |-> IdleMarketRequest]
    /\ cached_market_rows = <<>>
    /\ cached_market_at = None
    /\ market_refreshing = FALSE
    /\ mpc = [t \in Refreshers |-> NoRefresh]

\* what the steps of this section leave alone
besideMarket ==
    <<db, clock, today, lastWrite, histVars, ruleVars, concVars, inputVars,
      fetchVars, auto_fetch_enabled, acall>>

\* mutant: a refresh under way does not keep a request from starting another
KickStartsUnguarded(force, now) ==
    force \/ cached_market_at = None \/ now - cached_market_at[1] > MarketTtl

\* the locked block of _kick_market_refresh: whether a refresh is started
KickStarts(force, now) ==
    IF market_refreshing THEN FALSE
    ELSE IF ~force /\ cached_market_at # None /\ now - cached_market_at[1] <= MarketTtl
    THEN FALSE
    ELSE TRUE

\* a request to / or /api/market-overview calls _kick_market_refresh: when a
\* refresh is started, market_refreshing is set and a thread is created
KickMarketRefresh(r, endpoint, force) ==
    /\ reqs[r].pc = "idle"
    /\ reqs' = [reqs EXCEPT ![r] = [pc |-> "kicked", endpoint |-> endpoint,
                                    force |-> force]]
    /\ IF KickStarts(force, clock)
       THEN /\ \E t \in Refreshers : mpc[t].pc = "idle"
            /\ market_refreshing' = TRUE
            /\ mpc' = [mpc EXCEPT ![CHOOSE t \in Refreshers : mpc[t].pc = "idle"].pc =
                                     "started"]
       ELSE UNCHANGED <<market_refreshing, mpc>>
    /\ UNCHANGED <<op, ret, cached_market_rows, cached_market_at, besideMarket>>

\* the request then reads the cache under the lock and answers
ReadMarket(r) ==
    /\ reqs[r].pc = "kicked"
    /\ reqs' = [reqs EXCEPT ![r] = IdleMarketRequest]
    /\ op' = Call(reqs[r].endpoint, <<reqs[r].force>>)
    /\ ret' = [rows |-> cached_market_rows, as_of_utc |-> cached_market_at,
               refreshing |-> market_refreshing]
    /\ UNCHANGED <<marketVars, besideMarket>>

\* _run: get_us_index_overview_rows comes back with rows, or raises
RunFetch(t, raised, rows) ==
    /\ mpc[t].pc = "started"
    /\ mpc' = [mpc EXCEPT ![t] = IF raised
                                 THEN [pc |-> "finally", raised |-> TRUE, rows |-> <<>>]
                                 ELSE [pc |-> "store", raised |-> FALSE, rows |-> rows]]
    /\ UNCHANGED <<op, ret, reqs, cached_market_rows, cached_market_at,
                   market_refreshing, besideMarket>>

\* _run: cached_market_rows = rows or [], cached_market_at = now
RunStore(t) ==
    /\ mpc[t].pc = "store"
    /\ cached_market_rows' = mpc[t].rows
    /\ cached_market_at' = Some(clock)
    /\ mpc' = [mpc EXCEPT ![t].pc = "finally"]
    /\ UNCHANGED <<op, ret, reqs, market_refreshing, besideMarket>>

\* _run: finally market_refreshing = False, and the thread ends
RunFinally(t) ==
    /\ mpc[t].pc = "finally"
    /\ market_refreshing' = FALSE
    /\ mpc' = [mpc EXCEPT ![t] = NoRefresh]
    /\ UNCHANGED <<op, ret, reqs, cached_market_rows, cached_market_at, besideMarket>>

NextMarket ==
    \/ Later
    \/ \E r \in Requests, endpoint \in {"index", "api_market_overview"},
          force \in BOOLEAN : KickMarketRefresh(r, endpoint, force)
    \/ \E r \in Requests : ReadMarket(r)
    \/ \E t \in Refreshers, raised \in BOOLEAN, rows \in RowLists : RunFetch(t, raised, rows)
    \/ \E t \in Refreshers : RunStore(t)
    \/ \E t \in Refreshers : RunFinally(t)

\* a started thread gets its turns, and the requests of the fetch time out
SpecMarket ==
    /\ InitMarket
    /\ [][NextMarket]_vars
    /\ WF_vars(\E t \in Refreshers, raised \in BOOLEAN, rows \in RowLists :
                  RunFetch(t, raised, rows))
    /\ WF_vars(\E t \in Refreshers : RunStore(t))
    /\ WF_vars(\E t \in Refreshers : RunFinally(t))

----------------------------------------------------------------------------
(* Claims about the market overview cache *)

\* the refresh threads under way
Refreshing == {t \in Refreshers : mpc[t].pc # "idle"}

\* the step is a call of _kick_market_refresh by request r
Kicks(r) == reqs[r].pc = "idle" /\ reqs'[r].pc = "kicked"

\* at most one refresh thread at a time, market_refreshing telling whether
\* there is one
OneRefreshAtATime ==
    /\ Cardinality(Refreshing) <= 1
    /\ market_refreshing <=> Refreshing # {}

\* a request starts a refresh exactly when none is under way and it is forced
\* or the cache is missing or older than 60 seconds; in particular a
\* non-forced request starts none while the cache is at most 60 seconds old
KickRule ==
    \A r \in Requests :
        Kicks(r) =>
            LET fresh == cached_market_at # None /\ clock - cached_market_at[1] <= MarketTtl
                starts == Refreshing' # Refreshing
            IN  /\ starts <=> (~market_refreshing /\ (reqs'[r].force \/ ~fresh))
                /\ (~reqs'[r].force /\ fresh) => ~starts

\* C26: whatever the interleaving of requests to / and /api/market-overview,
\* at most one market refresh thread runs at a time; every started refresh
\* eventually resets market_refreshing, whether its fetch returned or raised,
\* so that a later request can start a new one; and a non-forced request
\* starts no refresh while the cache is at most 60 seconds old
C26_OneRefreshThreadAtATime ==
    /\ []OneRefreshAtATime
    /\ [][KickRule]_vars
    /\ market_refreshing ~> ~market_refreshing

\* a refresh whose fetch raised is about to reset the flag while a forced
\* request has called _kick_market_refresh and started no second thread
C26_Witness ==
    /\ \E t \in Refreshers : mpc[t].pc = "finally" /\ mpc[t].raised
    /\ Cardinality(Refreshing) = 1
    /\ \E r \in Requests : reqs[r].pc = "kicked" /\ reqs[r].force
    /\ market_refreshing

\* C27: a refresh that obtained no data leaves the cached rows and the cache
\* time as they were: the cache is replaced only by a refresh that produced
\* rows
C27_EmptyRefreshKeepsCache ==
    [][\A t \in Refreshers :
          (mpc[t].pc \in {"started", "store"} /\ mpc'[t].pc = "finally"
           /\ mpc'[t].rows = <<>>)
          => /\ cached_market_rows' = cached_market_rows
             /\ cached_market_at' = cached_market_at
    ]_vars

----------------------------------------------------------------------------
(* compute_alerts beside a writer: service.py reads the store three times   *)
(* for each indicator, each read a connection and a SELECT of its own, and  *)
(* an upsert batch of another request or process can commit in between      *)

\* the store before the call: the spread a month ago and yesterday, and
\* today's Fear & Greed
RaceStore ==
    {ObsToRow(o, 0) : o \in
        { Observation("us_high_yield_spread", 365, 41000, "bp", "TradingEconomics",
                      RawPercentMeta),
          Observation("us_high_yield_spread", 395, 42000, "bp", "TradingEconomics",
                      RawPercentMeta),
          Observation("cnn_fear_greed_index", 396, 1800, "0-100", "CNN:dataviz",
                      FearMeta) }}

\* the batches a writer commits: a revision of both days of the spread, and
\* the spread of the next day together with a back-filled one a month before it
RaceBatches ==
    { << Observation("us_high_yield_spread", 365, 30000, "bp", "FRED_TXT:BAMLH0A0HYM2",
                     RawPercentMeta),
         Observation("us_high_yield_spread", 395, 41500, "bp", "FRED_TXT:BAMLH0A0HYM2",
                     RawPercentMeta) >>,
      << Observation("us_high_yield_spread", 366, 31000, "bp", "TradingEconomics",
                     RawPercentMeta),
         Observation("us_high_yield_spread", 396, 43000, "bp", "TradingEconomics",
                     RawPercentMeta) >> }

AlertTargets == {<<"us_high_yield_spread">>, <<"cnn_fear_greed_index", "us_high_yield_spread">>}

NoAlertsCall ==
    [pc |-> "idle", targets |-> <<>>, i |-> 0, latest |-> None, h30 |-> <<>>,
     out |-> <<>>, used |-> <<>>, seen |-> {}]

InitAlertsRace ==
    /\ db = RaceStore
    /\ lastWrite = [k \in AllKeys |-> None]
    /\ clock = 1
    /\ today = 396
    /\ op = Call("init_db", <<>>)
    /\ ret = None
    /\ NoHistory
    /\ IdleRules
    /\ IdleWriters
    /\ IdleInputs
    /\ IdleFetch
    /\ auto_fetch_enabled = FALSE
    /\ reqs = <<>>
    /\ IdleMarket
    /\ acall = NoAlertsCall

\* what the steps of the call and of the writer leave alone
besideAlerts ==
    <<clock, today, lastWrite, histVars, ruleVars, concVars, inputVars, fetchVars,
      auto_fetch_enabled, reqs, marketVars>>

\* mutant: the rule is given no history
AlertWithoutHistory(ind, latest, h30, h365) ==
    IF latest = None \/ ind \notin RuleIds THEN None
    ELSE ApplyRule(ind, RuleContext(latest, <<>>, <<>>))

\* the end of one pass of the loop: no latest observation or no rule gives
\* nothing, else the rule is applied to what the three reads returned
AlertFromReads(ind, latest, h30, h365) ==
    IF latest = None \/ ind \notin RuleIds THEN None
    ELSE ApplyRule(ind, RuleContext(latest, h30, h365))

\* compute_alerts(db_path, indicators) is called
BeginAlerts(indicators) ==
    /\ acall.pc \in {"idle", "done"}
    /\ acall' = [NoAlertsCall EXCEPT !.pc = "latest", !.targets = indicators,
                                     !.i = 1, !.seen = {db}]
    /\ UNCHANGED <<db, op, ret, besideAlerts>>

\* latest = latest_observation(db_path, ind)
ReadLatest ==
    /\ acall.pc = "latest"
    /\ acall' = [acall EXCEPT !.latest = latest_observation(db, acall.targets[acall.i]),
                              !.pc = "h30"]
    /\ UNCHANGED <<db, op, ret, besideAlerts>>

\* h30 = recent_observations(db_path, ind, 35)
ReadRecent30 ==
    /\ acall.pc = "h30"
    /\ acall' = [acall EXCEPT !.h30 = recent_observations(db, acall.targets[acall.i],
                                                          35, today),
                              !.pc = "h365"]
    /\ UNCHANGED <<db, op, ret, besideAlerts>>

\* h365 = recent_observations(db_path, ind, 370), then the rule, and the loop
\* goes on or the list is returned
ReadRecent365 ==
    /\ acall.pc = "h365"
    /\ LET ind == acall.targets[acall.i]
           h365 == recent_observations(db, ind, 370, today)
           a == AlertFromReads(ind, acall.latest, acall.h30, h365)
           out == acall.out \o a
           last == acall.i = Len(acall.targets)
       IN  /\ acall' = [acall EXCEPT
                           !.out = out,
                           !.used = IF a = None THEN @
                                    ELSE Append(@, [latest |-> acall.latest[1],
                                                    h365 |-> h365]),
                           !.i = @ + 1,
                           !.pc = IF last THEN "done" ELSE "latest"]
           /\ IF last
              THEN /\ ret' = out
                   /\ op' = Call("compute_alerts", <<acall.targets>>)
              ELSE UNCHANGED <<op, ret>>
    /\ UNCHANGED <<db, besideAlerts>>

\* an upsert batch of another request or process commits; while a call is
\* under way the table it leaves is noted for the properties
CommitBatch(batch) ==
    /\ db' = upsert_observations(db, batch, clock).table
    /\ db' # db
    /\ acall' = IF acall.pc \in {"idle", "done"} THEN acall
                ELSE [acall EXCEPT !.seen = @ \cup {db'}]
    /\ UNCHANGED <<op, ret, besideAlerts>>

NextAlertsRace ==
    \/ \E indicators \in AlertTargets : BeginAlerts(indicators)
    \/ ReadLatest
    \/ ReadRecent30
    \/ ReadRecent365
    \/ \E batch \in RaceBatches : CommitBatch(batch)

SpecAlertsRace == InitAlertsRace /\ [][NextAlertsRace]_vars

\* the call has returned its list
AlertsReturned == acall.pc = "done"

\* the observation the spread rule subtracts: the one on or before 30 days
\* before the latest
Reference(u) == value_on_or_before(u.h365, u.latest.as_of - 30)

\* C28 as stated: compute_alerts returns for each indicator the alert its rule
\* gives on one consistent snapshot of the store, also when an upsert batch
\* commits between its reads: the latest value and the 30-day reference value
\* it combines coexisted in the store
C28_AlertsOfOneSnapshot ==
    AlertsReturned =>
        \A k \in DOMAIN acall.out :
            /\ \E S \in acall.seen :
                  Some(acall.out[k]) = AlertOf(S, acall.out[k].indicator_id, today)
            /\ Reference(acall.used[k]) # None =>
                  \E S \in acall.seen :
                      /\ latest_observation(S, acall.out[k].indicator_id)
                            = Some(acall.used[k].latest)
                      /\ \E r \in S : RowToObs(r) = Reference(acall.used[k])[1]

\* C28, amended: each alert is the one the rule gives on a latest observation
\* and on histories that were each read off the store as it stood at some
\* moment of the call; with no commit during the call the alerts are those of
\* the one snapshot
C28_AlertsOfSeparateReads ==
    AlertsReturned =>
        /\ \A k \in DOMAIN acall.out :
              LET ind == acall.out[k].indicator_id
              IN  \E S1, S3 \in acall.seen :
                      /\ latest_observation(S1, ind) # None
                      /\ \E h30 \in {recent_observations(S2, ind, 35, today) :
                                       S2 \in acall.seen} :
                            acall.out[k] =
                               ApplyRule(ind, RuleContext(
                                   latest_observation(S1, ind), h30,
                                   recent_observations(S3, ind, 370, today)))[1]
        /\ Cardinality(acall.seen) = 1 =>
              \A S \in acall.seen : acall.out = compute_alerts(S, acall.targets, today)

\* a call that read the latest spread before a revision of both days committed
\* and the year's history after it: the alert combines yesterday's old value
\* with the revised value of a month ago, a widening of 120 bp that no state
\* of the store showed
C28_Witness ==
    /\ AlertsReturned
    /\ Cardinality(acall.seen) = 2
    /\ \E k \in DOMAIN acall.out :
          /\ acall.out[k].indicator_id = "us_high_yield_spread"
          /\ acall.out[k].level = BEAR
          /\ acall.out[k].evidence.delta_1m = Some(12000)
          /\ \A S \in acall.seen :
                AlertOf(S, "us_high_yield_spread", today) # Some(acall.out[k])

====
